---- MODULE Spec2Model ----
(***************************************************************************)
(* A model of the Aembit Edge API client (lib/aembit.ts) of                *)
(* vronin/nextjs-boilerplate.                                              *)
(*                                                                         *)
(* The source tree holds several revisions of the library side by side:    *)
(*   "current"   src/lib/aembit.ts   lines   1-220                         *)
(*   "validated" src/lib/aembit.ts   lines 222-496                         *)
(*   "bare"      src/lib/aembit.ts   lines 498-645                         *)
(*   "strict"    src/lib/README.md   lines 248-702                         *)
(* The variable `variant` fixes which revision a behaviour runs.           *)
(*                                                                         *)
(* Strings are sequences of tokens (a token is one character, or for       *)
(* literal message text one chunk of characters); s \o t is concatenation. *)
(* JavaScript values are records [t, s, n]: t is the typeof tag, s the     *)
(* string content, n a number counted in tenths (15 is 1.5), so that       *)
(* Number.isInteger is computed rather than assumed.                       *)
(***************************************************************************)
EXTENDS Integers, Sequences, FiniteSets, TLC

(***************************************************************************)
(* Program constants                                                       *)
(***************************************************************************)
AUTH_ENDPOINT == <<"/edge/v1/auth">>
CREDENTIALS_ENDPOINT == <<"/edge/v1/credentials">>
DEFAULT_TIMEOUT_MS == 30000
MIN_TIMEOUT_MS == 1000
MAX_TIMEOUT_MS == 300000
MIN_PORT == 1
MAX_PORT == 65535
MAX_ERROR_BODY_BYTES == 10000
MAX_EXPIRES_IN_SECONDS == 31536000
REQUIRED_URL_PROTOCOL == "https:"
DEFAULT_TRANSPORT_PROTOCOL == <<"T", "C", "P">>
VALID_TRANSPORT_PROTOCOLS == {<<"T", "C", "P">>, <<"U", "D", "P">>}
API_KEY == <<"ApiKey">>
USERNAME_PASSWORD == <<"UsernamePassword">>
OAUTH_TOKEN == <<"OAuthToken">>
CREDENTIAL_TYPE == {API_KEY, USERNAME_PASSWORD, OAUTH_TOKEN}

Variants == {"current", "validated", "bare", "strict"}

(***************************************************************************)
(* JavaScript values                                                       *)
(***************************************************************************)
Str(s) == [t |-> "string", s |-> s, n |-> 0]
Num(tenths) == [t |-> "number", s |-> <<>>, n |-> tenths]
Whole(i) == Num(10 * i)
Undefined == [t |-> "undefined", s |-> <<>>, n |-> 0]
Null == [t |-> "null", s |-> <<>>, n |-> 0]

IsString(v) == v.t = "string"
IsNumber(v) == v.t = "number"
\* !value : undefined, null, "" and 0 are falsy
Falsy(v) == \/ v.t \in {"undefined", "null"}
            \/ (v.t = "string" /\ v.s = <<>>)
            \/ (v.t = "number" /\ v.n = 0)
NumberIsInteger(v) == v.t = "number" /\ v.n % 10 = 0

\* String(n) / `${n}` of a number held in tenths
NumToString(v) ==
    IF v.n % 10 = 0 THEN <<ToString(v.n \div 10)>>
    ELSE IF v.n > 0 THEN <<ToString(v.n \div 10), ".", ToString(v.n % 10)>>
    ELSE <<"-", ToString((0 - v.n) \div 10), ".", ToString((0 - v.n) % 10)>>

\* `${v}` of any value
TemplateString(v) ==
    CASE v.t = "string" -> v.s
      [] v.t = "number" -> NumToString(v)
      [] v.t = "null" -> <<"null">>
      [] OTHER -> <<"undefined">>

(***************************************************************************)
(* Characters and the regular expressions of the strict revision           *)
(***************************************************************************)
DigitChars == {"0", "1", "2", "3", "4", "5", "6", "7", "8", "9"}
LowerChars == {"a", "b", "c", "d", "e", "f", "g", "h", "i", "j", "k", "l", "m",
               "n", "o", "p", "q", "r", "s", "t", "u", "v", "w", "x", "y", "z"}
UpperChars == {"A", "B", "C", "D", "E", "F", "G", "H", "I", "J", "K", "L", "M",
               "N", "O", "P", "Q", "R", "S", "T", "U", "V", "W", "X", "Y", "Z"}
AlnumChars == DigitChars \cup LowerChars \cup UpperChars
HexChars == DigitChars \cup {"a", "b", "c", "d", "e", "f", "A", "B", "C", "D", "E", "F"}

Includes(s, ch) == \E i \in 1..Len(s) : s[i] = ch
StartsWith(s, ch) == Len(s) > 0 /\ s[1] = ch
EndsWith(s, ch) == Len(s) > 0 /\ s[Len(s)] = ch
Count(s, ch) == Cardinality({i \in 1..Len(s) : s[i] = ch})

\* s.split(sep): the pieces of s between the occurrences of the character sep
RECURSIVE Split(_, _)
Split(s, sep) ==
    IF ~Includes(s, sep) THEN <<s>>
    ELSE LET i == CHOOSE k \in 1..Len(s) : s[k] = sep /\ \A j \in 1..(k - 1) : s[j] # sep
         IN  <<SubSeq(s, 1, i - 1)>> \o Split(SubSeq(s, i + 1, Len(s)), sep)

\* s.trim() over the one whitespace character of the model
RECURSIVE Trim(_)
Trim(s) ==
    IF StartsWith(s, " ") THEN Trim(Tail(s))
    ELSE IF EndsWith(s, " ") THEN Trim(SubSeq(s, 1, Len(s) - 1))
    ELSE s

\* /^[A-Za-z0-9_-]+\.[A-Za-z0-9_-]+\.[A-Za-z0-9_-]+$/
JWT_PATTERN(s) ==
    LET parts == Split(s, ".")
    IN  /\ Len(parts) = 3
        /\ \A i \in 1..3 :
             /\ Len(parts[i]) > 0
             /\ \A j \in 1..Len(parts[i]) : parts[i][j] \in AlnumChars \cup {"_", "-"}

\* one label [a-zA-Z0-9]([a-zA-Z0-9-]{0,61}[a-zA-Z0-9])?
HostLabel(l) ==
    /\ Len(l) >= 1
    /\ Len(l) <= 63
    /\ l[1] \in AlnumChars
    /\ l[Len(l)] \in AlnumChars
    /\ \A j \in 1..Len(l) : l[j] \in AlnumChars \cup {"-"}

\* /^label(\.label)*$/
HOSTNAME_PATTERN(s) ==
    LET labels == Split(s, ".")
    IN  \A i \in 1..Len(labels) : HostLabel(labels[i])

\* the value of a string of decimal digits
RECURSIVE DigitsValue(_)
DigitsValue(s) ==
    IF s = <<>> THEN 0
    ELSE 10 * DigitsValue(SubSeq(s, 1, Len(s) - 1))
         + (CHOOSE d \in 0..9 : ToString(d) = s[Len(s)])

\* 25[0-5]|2[0-4][0-9]|[01]?[0-9][0-9]?
Octet(o) ==
    /\ Len(o) \in 1..3
    /\ \A j \in 1..Len(o) : o[j] \in DigitChars
    /\ DigitsValue(o) <= 255

\* /^(octet\.){3}octet$/
IPV4_PATTERN(s) ==
    LET parts == Split(s, ".")
    IN  Len(parts) = 4 /\ \A i \in 1..4 : Octet(parts[i])

(***************************************************************************)
(* The platform's URL parser (WHATWG URL), as far as the library uses it   *)
(***************************************************************************)
\* The IPv6 parser's loop over the pieces of an address.  pieceIndex counts the
\* pieces read, compress says whether "::" was seen.  An embedded IPv4 tail
\* (a "." after a piece) is answered as a failure: the shortest address that
\* has one, "::0.0.0.0", is longer than the hosts the model draws.
RECURSIVE IPv6Loop(_, _, _)
IPv6Loop(r, pieceIndex, compress) ==
    IF r = <<>> THEN compress \/ pieceIndex = 8
    ELSE IF pieceIndex = 8 THEN FALSE
    ELSE IF r[1] = ":" THEN
        IF compress THEN FALSE ELSE IPv6Loop(Tail(r), pieceIndex + 1, TRUE)
    ELSE
        LET hexRun == {k \in 0..4 : k <= Len(r) /\ \A j \in 1..k : r[j] \in HexChars}
            length == CHOOSE k \in hexRun : \A m \in hexRun : m <= k
            rest == SubSeq(r, length + 1, Len(r))
        IN  IF rest = <<>> THEN IPv6Loop(<<>>, pieceIndex + 1, compress)
            ELSE IF rest[1] = ":" /\ length > 0 THEN
                IF Len(rest) = 1 THEN FALSE
                ELSE IPv6Loop(Tail(rest), pieceIndex + 1, compress)
            ELSE FALSE

\* the IPv6 parser: TRUE when the input is an IPv6 address
IPv6Parse(s) ==
    IF StartsWith(s, ":") THEN
        IF Len(s) < 2 \/ s[2] # ":" THEN FALSE
        ELSE IPv6Loop(SubSeq(s, 3, Len(s)), 1, TRUE)
    ELSE IPv6Loop(s, 0, FALSE)

\* new URL("http://" + authority) succeeds.  The host state reads up to the
\* first ":" outside brackets, what follows is the port; a host that opens
\* with "[" must close with "]" and hold an IPv6 address.  The authorities the
\* library builds open with "[" and hold none of "/", "?", "#", "@", "\".
UrlParsesAuthority(authority) ==
    LET inside(i) ==
            LET brackets == {j \in 1..(i - 1) : authority[j] \in {"[", "]"}}
            IN  brackets # {} /\ authority[CHOOSE j \in brackets : \A k \in brackets : k <= j] = "["
        colons == {i \in 1..Len(authority) : authority[i] = ":" /\ ~inside(i)}
        split == IF colons = {} THEN Len(authority) + 1
                 ELSE CHOOSE i \in colons : \A k \in colons : i <= k
        host == SubSeq(authority, 1, split - 1)
        port == SubSeq(authority, split + 1, Len(authority))
        hostOk == /\ StartsWith(host, "[")
                  /\ EndsWith(host, "]")
                  /\ Len(host) >= 2
                  /\ IPv6Parse(SubSeq(host, 2, Len(host) - 1))
        portOk == /\ \A j \in 1..Len(port) : port[j] \in DigitChars
                  /\ Len(port) <= 5
                  /\ DigitsValue(port) <= 65535
    IN  hostOk /\ portOk

\* new URL(baseUrl) over base URLs written as tokens: a scheme token, "//", a
\* host token, then "/" and path segments.  Leading and trailing spaces are
\* stripped by the parser.  The result: ok, protocol, and the origin tokens.
UrlSchemes == {"https:", "http:", "ws:"}
ParseUrl(s) ==
    LET u == Trim(s)
        ok == /\ Len(u) >= 3
              /\ u[1] \in UrlSchemes
              /\ u[2] = "//"
              /\ u[3] \notin {"/", "//", " "} \cup UrlSchemes
              /\ \A i \in 4..Len(u) : u[i] \notin {"//", " "} \cup UrlSchemes
    IN  [ok |-> ok,
         protocol |-> IF ok THEN u[1] ELSE "",
         origin |-> IF ok THEN SubSeq(u, 1, 3) ELSE <<>>]

\* new URL(endpoint, baseUrl).toString() for an endpoint that is an absolute
\* path: the path of the base is replaced by the endpoint
ResolveUrl(endpoint, baseUrl) == ParseUrl(baseUrl).origin \o endpoint

(***************************************************************************)
(* Validation.  A validator answers Pass, or Throw(message).               *)
(***************************************************************************)
Pass == [ok |-> TRUE, msg |-> <<>>]
Throw(message) == [ok |-> FALSE, msg |-> message]

\* the first failure of a sequence of checks, as statements run in order
RECURSIVE FirstThrow(_)
FirstThrow(checks) ==
    IF checks = <<>> THEN Pass
    ELSE IF ~checks[1].ok THEN checks[1]
    ELSE FirstThrow(Tail(checks))

isNonEmptyString(value) == IsString(value) /\ Len(value.s) > 0

requireNonEmptyString(value, name) ==
    IF ~IsString(value) THEN
        Throw(<<name, " must be a string (got ", value.t, ")">>)
    ELSE IF Len(Trim(value.s)) = 0 THEN
        Throw(<<name, " cannot be empty or whitespace-only">>)
    ELSE Pass

requireNonEmptyString_validated(value, name) ==
    IF Falsy(value) \/ ~IsString(value) THEN
        Throw(<<name, " is required and must be a non-empty string">>)
    ELSE Pass

requireJwtFormat(value, name) ==
    FirstThrow(<<requireNonEmptyString(value, name),
                 IF IsString(value) /\ ~JWT_PATTERN(value.s) THEN
                     Throw(<<name, " must be a valid JWT format (three base64url segments separated by dots)">>)
                 ELSE Pass>>)

validateBaseUrl(baseUrl) ==
    FirstThrow(<<requireNonEmptyString(baseUrl, "baseUrl"),
                 IF IsString(baseUrl) /\ ~ParseUrl(baseUrl.s).ok THEN
                     Throw(<<"Invalid baseUrl format">>)
                 ELSE Pass,
                 IF IsString(baseUrl) /\ ParseUrl(baseUrl.s).protocol # REQUIRED_URL_PROTOCOL THEN
                     Throw(<<"baseUrl must use HTTPS, got protocol: ", ParseUrl(baseUrl.s).protocol>>)
                 ELSE Pass>>)

validateBaseUrl_validated(baseUrl) ==
    FirstThrow(<<requireNonEmptyString_validated(baseUrl, "baseUrl"),
                 IF IsString(baseUrl) /\ ~ParseUrl(baseUrl.s).ok THEN
                     Throw(<<"Invalid baseUrl format: ">> \o baseUrl.s)
                 ELSE Pass>>)

validatePort(port) ==
    IF ~IsNumber(port) \/ ~NumberIsInteger(port)
       \/ port.n < 10 * MIN_PORT \/ port.n > 10 * MAX_PORT THEN
        Throw(<<"port must be an integer between ", ToString(MIN_PORT), " and ", ToString(MAX_PORT)>>)
    ELSE Pass

\* host.replace(/^\[|\]$/g, "")
StripBrackets(host) ==
    LET a == IF StartsWith(host, "[") THEN Tail(host) ELSE host
    IN  IF EndsWith(a, "]") THEN SubSeq(a, 1, Len(a) - 1) ELSE a

validateHost(host) ==
    FirstThrow(<<requireNonEmptyString(host, "host"),
                 IF /\ IsString(host)
                    /\ ~HOSTNAME_PATTERN(host.s)
                    /\ ~IPV4_PATTERN(host.s)
                    /\ ~UrlParsesAuthority(<<"[">> \o StripBrackets(host.s) \o <<"]">>) THEN
                     Throw(<<"Invalid host format">>)
                 ELSE Pass>>)

isIPv6(host) == Includes(host, ":")

validateCredentialType(credentialType) ==
    IF ~(IsString(credentialType) /\ credentialType.s \in CREDENTIAL_TYPE) THEN
        Throw(<<"Invalid credentialType: ">> \o TemplateString(credentialType)
              \o <<". Must be one of: ", "ApiKey, UsernamePassword, OAuthToken">>)
    ELSE Pass

validateTransportProtocol(protocol) ==
    IF ~(IsString(protocol) /\ protocol.s \in VALID_TRANSPORT_PROTOCOLS) THEN
        Throw(<<"Invalid transportProtocol: ">> \o TemplateString(protocol)
              \o <<". Must be one of: ", "TCP, UDP">>)
    ELSE Pass

\* the validated timeout: [ok, msg, value]
resolveTimeout(timeoutMs) ==
    IF timeoutMs.t = "undefined" THEN [ok |-> TRUE, msg |-> <<>>, value |-> Whole(DEFAULT_TIMEOUT_MS)]
    ELSE IF ~IsNumber(timeoutMs) \/ ~NumberIsInteger(timeoutMs)
            \/ timeoutMs.n < 10 * MIN_TIMEOUT_MS \/ timeoutMs.n > 10 * MAX_TIMEOUT_MS THEN
        [ok |-> FALSE,
         msg |-> <<"timeoutMs must be an integer between ", ToString(MIN_TIMEOUT_MS),
                   " and ", ToString(MAX_TIMEOUT_MS)>>,
         value |-> Undefined]
    ELSE [ok |-> TRUE, msg |-> <<>>, value |-> timeoutMs]

\* `timeoutMs = DEFAULT_TIMEOUT_MS` in a destructuring: the default replaces undefined only
DefaultTo(value, default) == IF value.t = "undefined" THEN default ELSE value

\* a formatter that brackets whatever holds a colon (the properties of the
\* request host are checked against it)
formatHostForRequest_anyColon(host) ==
    IF Includes(host, ":") THEN <<"[">> \o host \o <<"]">> ELSE host

formatHostForRequest(host) ==
    IF ~isIPv6(host) \/ StartsWith(host, "[") THEN host
    ELSE <<"[">> \o host \o <<"]">>

\* const formattedHost = host.includes(":") && !host.startsWith("[") ? `[${host}]` : host
formattedHost_current(host) ==
    IF Includes(host, ":") /\ ~StartsWith(host, "[") THEN <<"[">> \o host \o <<"]">>
    ELSE host

(***************************************************************************)
(* JSON values of response bodies.  A body is a record                     *)
(*   [t, accessToken, tokenType, expiresIn, credentialType, expiresAt, data]*)
(* whose t is the JSON type of the body and whose fields are the values of *)
(* the keys the library reads (Undefined: the key is absent); data is      *)
(*   [t, apiKey, username, password, token].                               *)
(***************************************************************************)
NoData == [t |-> "undefined", apiKey |-> Undefined, username |-> Undefined,
           password |-> Undefined, token |-> Undefined]
Data(apiKey, username, password, token) ==
    [t |-> "object", apiKey |-> apiKey, username |-> username,
     password |-> password, token |-> token]
EmptyObject == [t |-> "object", accessToken |-> Undefined, tokenType |-> Undefined,
                expiresIn |-> Undefined, credentialType |-> Undefined,
                expiresAt |-> Undefined, data |-> NoData]
JsonNull == [EmptyObject EXCEPT !.t = "null"]
JsonString == [EmptyObject EXCEPT !.t = "string"]

\* typeof obj === "object" && obj !== null
IsObject(obj) == obj.t = "object"
\* "key" in obj
HasKey(value) == value.t # "undefined"

\* /^\d{4}-\d{2}-\d{2}T\d{2}:\d{2}:\d{2}(\.\d+)?(Z|[+-]\d{2}:?\d{2})?$/
ISO8601_PATTERN(s) ==
    LET digitsAt(S) == \A i \in S : s[i] \in DigitChars
        zone(z) == \/ z = <<>>
                   \/ z = <<"Z">>
                   \/ /\ Len(z) \in {5, 6}
                      /\ z[1] \in {"+", "-"}
                      /\ z[2] \in DigitChars /\ z[3] \in DigitChars
                      /\ (Len(z) = 6 => z[4] = ":")
                      /\ z[Len(z) - 1] \in DigitChars /\ z[Len(z)] \in DigitChars
        rest == SubSeq(s, 20, Len(s))
        fracRun == {k \in 1..(Len(rest) - 1) : \A j \in 2..(k + 1) : rest[j] \in DigitChars}
    IN  /\ Len(s) >= 19
        /\ digitsAt({1, 2, 3, 4, 6, 7, 9, 10, 12, 13, 15, 16, 18, 19})
        /\ s[5] = "-" /\ s[8] = "-" /\ s[11] = "T" /\ s[14] = ":" /\ s[17] = ":"
        /\ \/ zone(rest)
           \/ /\ StartsWith(rest, ".")
              /\ \E k \in fracRun : zone(SubSeq(rest, k + 2, Len(rest)))

\* !isNaN(new Date(value).getTime()) for a string the pattern matched: the
\* fields must be in range.  A day beyond the month's length (30 February) is
\* answered differently by different engines and is not drawn by the model.
DateIsValid(s) ==
    LET month == DigitsValue(SubSeq(s, 6, 7))
        day == DigitsValue(SubSeq(s, 9, 10))
        hour == DigitsValue(SubSeq(s, 12, 13))
        minute == DigitsValue(SubSeq(s, 15, 16))
        second == DigitsValue(SubSeq(s, 18, 19))
    IN  /\ month \in 1..12
        /\ day \in 1..31
        /\ minute <= 59
        /\ second <= 59
        /\ (hour <= 23 \/ (hour = 24 /\ minute = 0 /\ second = 0))

isValidOptionalDateString(value) ==
    IF value.t \in {"null", "undefined"} THEN TRUE
    ELSE IF ~IsString(value) THEN FALSE
    ELSE ISO8601_PATTERN(value.s) /\ DateIsValid(value.s)

\* a guard without the integer test and the ceiling (the properties of the
\* token guard are checked against it)
isAembitTokenDTO_noCeiling(obj) ==
    /\ obj.t = "object"
    /\ obj.accessToken.t = "string" /\ obj.accessToken.s # <<>>
    /\ obj.tokenType.t = "string" /\ obj.tokenType.s # <<>>
    /\ obj.expiresIn.t = "number"
    /\ obj.expiresIn.n > 0

isAembitTokenDTO(obj) ==
    /\ IsObject(obj)
    /\ isNonEmptyString(obj.accessToken)
    /\ isNonEmptyString(obj.tokenType)
    /\ IsNumber(obj.expiresIn)
    /\ NumberIsInteger(obj.expiresIn)
    /\ obj.expiresIn.n > 0
    /\ obj.expiresIn.n <= 10 * MAX_EXPIRES_IN_SECONDS

isAembitTokenDTO_current(obj) ==
    /\ IsObject(obj)
    /\ IsString(obj.accessToken)
    /\ Len(obj.accessToken.s) > 0
    /\ IsString(obj.tokenType)
    /\ Len(obj.tokenType.s) > 0
    /\ IsNumber(obj.expiresIn)
    /\ obj.expiresIn.n > 0

isAembitTokenDTO_validated(obj) ==
    /\ IsObject(obj)
    /\ HasKey(obj.accessToken)
    /\ IsString(obj.accessToken)
    /\ HasKey(obj.tokenType)
    /\ IsString(obj.tokenType)
    /\ HasKey(obj.expiresIn)
    /\ IsNumber(obj.expiresIn)

isAembitCredentialsResponse(obj) ==
    IF ~IsObject(obj) \/ ~HasKey(obj.credentialType) \/ ~HasKey(obj.data) THEN FALSE
    ELSE IF ~isValidOptionalDateString(obj.expiresAt) THEN FALSE
    ELSE IF obj.data.t # "object" THEN FALSE
    ELSE IF ~IsString(obj.credentialType) THEN FALSE
    ELSE CASE obj.credentialType.s = API_KEY -> isNonEmptyString(obj.data.apiKey)
           [] obj.credentialType.s = USERNAME_PASSWORD ->
                isNonEmptyString(obj.data.username) /\ isNonEmptyString(obj.data.password)
           [] obj.credentialType.s = OAUTH_TOKEN -> isNonEmptyString(obj.data.token)
           [] OTHER -> FALSE

isAembitCredentialsResponse_current(obj) ==
    IF ~IsObject(obj) \/ ~HasKey(obj.credentialType) \/ ~HasKey(obj.data) THEN FALSE
    ELSE IF obj.data.t # "object" THEN FALSE
    ELSE IF obj.credentialType # Str(OAUTH_TOKEN) THEN FALSE
    ELSE IsString(obj.data.token) /\ Len(obj.data.token.s) > 0

isAembitCredentialsResponse_validated(obj) ==
    IF ~IsObject(obj) \/ ~HasKey(obj.credentialType) \/ ~HasKey(obj.data) THEN FALSE
    ELSE IF obj.data.t # "object" THEN FALSE
    ELSE IF ~IsString(obj.credentialType) THEN FALSE
    ELSE CASE obj.credentialType.s = API_KEY -> IsString(obj.data.apiKey)
           [] obj.credentialType.s = USERNAME_PASSWORD ->
                IsString(obj.data.username) /\ IsString(obj.data.password)
           [] obj.credentialType.s = OAUTH_TOKEN -> IsString(obj.data.token)
           [] OTHER -> FALSE

(***************************************************************************)
(* Response texts, responses, errors and outcomes                          *)
(***************************************************************************)
\* A text is the first len characters of the body named src, then a suffix.
Text(src, len) == [src |-> src, len |-> len, suffix |-> <<>>]
NoText == Text("", 0)
TextTokens(text) ==
    IF text.len = 0 /\ text.suffix = <<>> THEN <<>>
    ELSE <<text.src, "[0:", ToString(text.len), "]">> \o text.suffix
\* text.slice(0, n)
Slice(text, n) == [text EXCEPT !.len = IF text.len < n THEN text.len ELSE n]

\* A response: status line and body.  bodyKind says what reading the body
\* gives: "json" (text that parses to .json), "text" (text that is not JSON),
\* "error" (the read rejects), "stall" (the read never settles).
Response(status, statusText, bodyKind, json, text) ==
    [status |-> status, statusText |-> statusText, bodyKind |-> bodyKind,
     json |-> json, text |-> text]
NoResponse == Response(0, <<>>, "none", JsonNull, NoText)
\* res.ok
Ok(res) == res.status >= 200 /\ res.status <= 299

\* what a promise rejects with
Cause(isError, name, message) == [isError |-> isError, name |-> name, message |-> message]
AbortError == Cause(TRUE, "AbortError", <<"This operation was aborted">>)
SyntaxError == Cause(TRUE, "SyntaxError", <<"Unexpected token">>)
BodyReadError == Cause(TRUE, "TypeError", <<"terminated">>)
\* err instanceof Error ? err.message : String(err)
ErrMessage(err) == err.message

\* The outcome of a call: pending, a returned value, or a thrown error.
\* origin names the statement that threw.
Pending == [kind |-> "pending", origin |-> "", name |-> "", message |-> <<>>,
            status |-> 0, statusText |-> <<>>, responseBody |-> NoText,
            value |-> JsonNull]
Thrown(origin, name, message) ==
    [Pending EXCEPT !.kind = "throw", !.origin = origin, !.name = name,
                    !.message = message]
Returned(value) == [Pending EXCEPT !.kind = "return", !.value = value]

\* an error whose message stops at the status code (the properties of the
\* message are checked against it)
AembitApiError_codeOnly(endpoint, status, statusText, responseBody) ==
    [Thrown("api", "AembitApiError",
            <<"Aembit ">> \o endpoint \o <<" failed: ", ToString(status)>>)
     EXCEPT !.status = status, !.statusText = statusText, !.responseBody = responseBody]

\* class AembitApiError: super(`Aembit ${endpoint} failed: ${status} ${statusText}`)
AembitApiError(endpoint, status, statusText, responseBody) ==
    [Thrown("api", "AembitApiError",
            <<"Aembit ">> \o endpoint \o <<" failed: ", ToString(status), " ">> \o statusText)
     EXCEPT !.status = status, !.statusText = statusText, !.responseBody = responseBody]

\* the earlier class: the message ends with ` - ${responseBody}` when there is one
AembitApiError_validated(endpoint, status, statusText, responseBody) ==
    [Thrown("api", "AembitApiError",
            <<"Aembit ">> \o endpoint \o <<" failed: ", ToString(status), " ">> \o statusText
            \o (IF TextTokens(responseBody) # <<>>
                THEN <<" - ">> \o TextTokens(responseBody) ELSE <<>>))
     EXCEPT !.status = status, !.statusText = statusText, !.responseBody = responseBody]

\* readErrorBody: the text, truncated; or the reason the read failed
readErrorBody(res) ==
    IF res.bodyKind = "error" THEN
        [NoText EXCEPT !.suffix = <<"(failed to read response body: ">>
                                  \o ErrMessage(BodyReadError) \o <<")">>]
    ELSE IF res.text.len > MAX_ERROR_BODY_BYTES THEN
        [Slice(res.text, MAX_ERROR_BODY_BYTES) EXCEPT !.suffix = <<"... (truncated)">>]
    ELSE res.text

\* await res.text().catch(() => "")
TextOrEmpty(res) == IF res.bodyKind = "error" THEN NoText ELSE res.text

\* two catch blocks the properties of the timeout are checked against: one
\* reports the default timeout, one has no AbortError case
fetchWithTimeout_catch_defaultMs(err, timeoutMs) ==
    IF err.isError /\ err.name = "AbortError" THEN
        Thrown("timeout", "Error",
               <<"Request timed out after ", ToString(DEFAULT_TIMEOUT_MS), "ms">>)
    ELSE Thrown("network", "Error", <<"Network error: ">> \o ErrMessage(err))
\* a catch block whose network error leaves the cause out
fetchWithTimeout_catch_noCause(err, timeoutMs) ==
    IF err.isError /\ err.name = "AbortError" THEN
        Thrown("timeout", "Error",
               <<"Request timed out after ">> \o TemplateString(timeoutMs) \o <<"ms">>)
    ELSE Thrown("network", "Error", <<"Network error">>)
fetchWithTimeout_catch_noAbortCase(err, timeoutMs) ==
    Thrown("network", "Error", <<"Network error: ">> \o ErrMessage(err))

\* the rejection of fetch, as the catch block of fetchWithTimeout rethrows it
fetchWithTimeout_catch(err, timeoutMs) ==
    IF err.isError /\ err.name = "AbortError" THEN
        Thrown("timeout", "Error",
               <<"Request timed out after ">> \o TemplateString(timeoutMs) \o <<"ms">>)
    ELSE Thrown("network", "Error", <<"Network error: ">> \o ErrMessage(err))

fetchWithTimeout_catch_validated(err, url, timeoutMs) ==
    IF err.isError /\ err.name = "AbortError" THEN
        Thrown("timeout", "Error",
               <<"Request to ">> \o url \o <<" timed out after ">>
               \o TemplateString(timeoutMs) \o <<"ms">>)
    ELSE Thrown("network", "Error",
                <<"Network error requesting ">> \o url \o <<": ">> \o ErrMessage(err))

\* a parser whose parse error names no endpoint (the properties of the parse
\* error are checked against it)
parseJsonResponse_noEndpoint(res, endpoint, guardHolds) ==
    IF res.bodyKind # "json" THEN
        Thrown("parse", "Error",
               <<"Failed to parse JSON: ">>
               \o ErrMessage(IF res.bodyKind = "text" THEN SyntaxError ELSE BodyReadError))
    ELSE IF ~guardHolds THEN
        Thrown("shape", "Error", <<"Unexpected response shape from ">> \o endpoint)
    ELSE Returned(res.json)

\* parseJsonResponse once res.json() has settled
parseJsonResponse(res, endpoint, guardHolds) ==
    IF res.bodyKind # "json" THEN
        Thrown("parse", "Error",
               <<"Failed to parse JSON from ">> \o endpoint \o <<": ">>
               \o ErrMessage(IF res.bodyKind = "text" THEN SyntaxError ELSE BodyReadError))
    ELSE IF ~guardHolds THEN
        Thrown("shape", "Error", <<"Unexpected response shape from ">> \o endpoint)
    ELSE Returned(res.json)

\* return (await res.json()) as T : no catch, no guard
UncheckedJson(res) ==
    IF res.bodyKind = "json" THEN Returned(res.json)
    ELSE IF res.bodyKind = "text" THEN Thrown("json", SyntaxError.name, SyntaxError.message)
    ELSE Thrown("json", BodyReadError.name, BodyReadError.message)

(***************************************************************************)
(* The synchronous part of a call: validation, URL, request                *)
(***************************************************************************)
Endpoint(o) == IF o = "auth" THEN AUTH_ENDPOINT ELSE CREDENTIALS_ENDPOINT
AsCheck(r) == [ok |-> r.ok, msg |-> r.msg]

\* aembitAuthWithOidc, strict revision: resolveTimeout, then the validators
validateAuth_strict(p) ==
    FirstThrow(<<AsCheck(resolveTimeout(p.timeoutMs)),
                 validateBaseUrl(p.baseUrl),
                 requireNonEmptyString(p.clientId, "clientId"),
                 requireJwtFormat(p.oidcIdentityToken, "oidcIdentityToken")>>)

\* aembitGetCredentials, strict revision
validateCreds_strict(p) ==
    FirstThrow(<<AsCheck(resolveTimeout(p.timeoutMs)),
                 validateBaseUrl(p.baseUrl),
                 requireJwtFormat(p.bearerToken, "bearerToken"),
                 requireJwtFormat(p.oidcIdentityToken, "oidcIdentityToken"),
                 validateHost(p.host),
                 validatePort(p.port),
                 validateCredentialType(p.credentialType),
                 validateTransportProtocol(DefaultTo(p.transportProtocol,
                                                     Str(DEFAULT_TRANSPORT_PROTOCOL)))>>)

validateAuth_validated(p) ==
    FirstThrow(<<validateBaseUrl_validated(p.baseUrl),
                 requireNonEmptyString_validated(p.clientId, "clientId"),
                 requireNonEmptyString_validated(p.oidcIdentityToken, "oidcIdentityToken")>>)

validateCreds_validated(p) ==
    FirstThrow(<<validateBaseUrl_validated(p.baseUrl),
                 requireNonEmptyString_validated(p.bearerToken, "bearerToken"),
                 requireNonEmptyString_validated(p.oidcIdentityToken, "oidcIdentityToken"),
                 requireNonEmptyString_validated(p.host, "host"),
                 validatePort(p.port)>>)

\* the current and the bare revision validate nothing
Validation(v, o, p) ==
    CASE v = "strict" /\ o = "auth" -> validateAuth_strict(p)
      [] v = "strict" /\ o = "creds" -> validateCreds_strict(p)
      [] v = "validated" /\ o = "auth" -> validateAuth_validated(p)
      [] v = "validated" /\ o = "creds" -> validateCreds_validated(p)
      [] OTHER -> Pass

\* new URL(ENDPOINT, baseUrl) throws a TypeError when baseUrl is no URL
UrlThrows(p) == ~(IsString(p.baseUrl) /\ ParseUrl(p.baseUrl.s).ok)

\* host.includes(":") throws a TypeError when host is no string
HostThrows(v, o, p) == v = "current" /\ o = "creds" /\ ~IsString(p.host)

\* what the statements before the request throw, or Pending when none does
Preflight(v, o, p) ==
    IF ~Validation(v, o, p).ok THEN Thrown("validation", "Error", Validation(v, o, p).msg)
    ELSE IF UrlThrows(p) THEN Thrown("url", "TypeError", <<"Invalid URL">>)
    ELSE IF HostThrows(v, o, p) THEN
        Thrown("host", "TypeError", <<"host.includes is not a function">>)
    ELSE Pending

\* the delay the timer is armed with
TimeoutOf(v, p) ==
    CASE v = "strict" -> resolveTimeout(p.timeoutMs).value
      [] v = "current" -> DefaultTo(p.timeoutMs, Whole(DEFAULT_TIMEOUT_MS))
      [] v = "validated" -> Whole(DEFAULT_TIMEOUT_MS)
      [] OTHER -> Undefined

\* server.host of the request body
HostForRequest(v, host) ==
    CASE v = "strict" -> Str(formatHostForRequest(host.s))
      [] v = "current" -> Str(formattedHost_current(host.s))
      [] OTHER -> host

\* `Bearer ${token}`
formatBearerAuth(token) == <<"Bearer", " ">> \o TemplateString(token)

\* A request as fetch receives it.  body is the value JSON.stringify
\* serialises, with its shape: "auth" is {clientId, client:{oidc:{identityToken}}},
\* "creds" is {client:{oidc:{identityToken}}, server:{transportProtocol, host,
\* port}, credentialType}.  A key whose value is Undefined is left out by
\* JSON.stringify.
AuthRequest_swapped(url, p) ==
    [url |-> url, method |-> "POST", contentType |-> <<"application/json">>,
     authorization |-> <<>>,
     body |-> [shape |-> "auth", clientId |-> p.oidcIdentityToken,
               identityToken |-> p.clientId,
               transportProtocol |-> Undefined, host |-> Undefined,
               port |-> Undefined, credentialType |-> Undefined]]
AuthRequest(url, p) ==
    [url |-> url, method |-> "POST", contentType |-> <<"application/json">>,
     authorization |-> <<>>,
     body |-> [shape |-> "auth", clientId |-> p.clientId,
               identityToken |-> p.oidcIdentityToken,
               transportProtocol |-> Undefined, host |-> Undefined,
               port |-> Undefined, credentialType |-> Undefined]]

\* a request that leaves an omitted transportProtocol out (the properties of the
\* credentials request are checked against it)
CredsRequest_noDefault(v, url, p) ==
    [url |-> url, method |-> "POST", contentType |-> <<"application/json">>,
     authorization |-> formatBearerAuth(p.bearerToken),
     body |-> [shape |-> "creds", clientId |-> Undefined,
               identityToken |-> p.oidcIdentityToken,
               transportProtocol |-> p.transportProtocol,
               host |-> HostForRequest(v, p.host),
               port |-> p.port, credentialType |-> p.credentialType]]

CredsRequest(v, url, p) ==
    [url |-> url, method |-> "POST", contentType |-> <<"application/json">>,
     authorization |-> formatBearerAuth(p.bearerToken),
     body |-> [shape |-> "creds", clientId |-> Undefined,
               identityToken |-> p.oidcIdentityToken,
               transportProtocol |-> DefaultTo(p.transportProtocol,
                                               Str(DEFAULT_TRANSPORT_PROTOCOL)),
               host |-> HostForRequest(v, p.host),
               port |-> p.port, credentialType |-> p.credentialType]]

BuildRequest(v, o, p) ==
    LET url == ResolveUrl(Endpoint(o), p.baseUrl.s)
    IN  IF o = "auth" THEN AuthRequest(url, p) ELSE CredsRequest(v, url, p)

\* the shape guard a revision applies to the parsed body
Guard(v, o, body) ==
    CASE v = "strict" /\ o = "auth" -> isAembitTokenDTO(body)
      [] v = "strict" /\ o = "creds" -> isAembitCredentialsResponse(body)
      [] v = "current" /\ o = "auth" -> isAembitTokenDTO_current(body)
      [] v = "current" /\ o = "creds" -> isAembitCredentialsResponse_current(body)
      [] v = "validated" /\ o = "auth" -> isAembitTokenDTO_validated(body)
      [] v = "validated" /\ o = "creds" -> isAembitCredentialsResponse_validated(body)
      [] OTHER -> TRUE

\* the outcome once the body of a 2xx response has been read
SuccessOutcome(v, o, r) ==
    IF v = "bare" THEN UncheckedJson(r)
    ELSE parseJsonResponse(r, Endpoint(o), r.bodyKind = "json" /\ Guard(v, o, r.json))

\* an outcome that parses the body before it looks at the status (the
\* properties of the status check are checked against it)
FailureOutcome_parseFirst(v, o, r) ==
    IF SuccessOutcome(v, o, r).kind = "throw" THEN SuccessOutcome(v, o, r)
    ELSE AembitApiError(Endpoint(o), r.status, r.statusText, readErrorBody(r))

\* the outcome once the body of a non-2xx response has been read
FailureOutcome(v, o, r) ==
    IF v \in {"current", "strict"} THEN
        AembitApiError(Endpoint(o), r.status, r.statusText, readErrorBody(r))
    ELSE AembitApiError_validated(Endpoint(o), r.status, r.statusText, TextOrEmpty(r))

\* the rejection of fetch as the call passes it on
RejectOutcome(v, err, url, timeoutMs) ==
    CASE v \in {"current", "strict"} -> fetchWithTimeout_catch(err, timeoutMs)
      [] v = "validated" -> fetchWithTimeout_catch_validated(err, url, timeoutMs)
      [] OTHER -> Thrown("fetch", err.name, err.message)

(***************************************************************************)
(* Inputs drawn by the model                                               *)
(***************************************************************************)
NumCalls == 2
MaxDeviations == 1
Calls == 1..NumCalls

Fields == {"baseUrl", "clientId", "bearerToken", "oidcIdentityToken", "host",
           "port", "credentialType", "transportProtocol", "timeoutMs"}
AuthFields == {"baseUrl", "clientId", "oidcIdentityToken", "timeoutMs"}

JwtA == <<"a", ".", "b", ".", "c">>
JwtB == <<"x", ".", "y", ".", "z">>
HostA == <<"a", ".", "b">>

\* a call every revision accepts
ValidParams(o) ==
    [baseUrl |-> Str(<<"https:", "//", "h">>),
     clientId |-> IF o = "auth" THEN Str(<<"c">>) ELSE Undefined,
     bearerToken |-> IF o = "creds" THEN Str(JwtB) ELSE Undefined,
     oidcIdentityToken |-> Str(JwtA),
     host |-> IF o = "creds" THEN Str(HostA) ELSE Undefined,
     port |-> IF o = "creds" THEN Whole(443) ELSE Undefined,
     credentialType |-> IF o = "creds" THEN Str(OAUTH_TOKEN) ELSE Undefined,
     transportProtocol |-> Undefined,
     timeoutMs |-> Undefined]

\* the other values a field is given, well formed and malformed
FieldValues(f) ==
    CASE f = "baseUrl" ->
            {Str(<<"https:", "//", "h", "/">>), Str(<<"https:", "//", "h", "/", "api">>),
             Str(<<"http:", "//", "h">>), Str(<<"h">>), Str(<<>>), Str(<<" ">>), Undefined}
      [] f = "clientId" -> {Str(<<>>), Str(<<" ">>), Undefined}
      [] f = "bearerToken" -> {Str(<<"t">>), Str(<<>>), Undefined}
      [] f = "oidcIdentityToken" -> {Str(<<"y">>), Str(<<"a", ".", "b">>), Str(<<>>), Undefined}
      [] f = "host" ->
            {Str(<<"1", ".", "2", ".", "3", ".", "4">>), Str(<<":", ":", "1">>),
             Str(<<"[", ":", ":", "1", "]">>), Str(<<"[", ":", ":", "1">>),
             Str(<<":", ":", "1", "]">>), Str(<<"a", ":", "b">>), Str(<<"-", "a">>),
             Str(<<>>), Undefined}
      [] f = "port" ->
            {Whole(1), Whole(65535), Whole(0), Whole(65536), Num(15), Whole(-1),
             Str(<<"4", "4", "3">>), Undefined}
      [] f = "credentialType" ->
            {Str(API_KEY), Str(USERNAME_PASSWORD), Str(<<"Other">>), Undefined}
      [] f = "transportProtocol" ->
            {Str(<<"T", "C", "P">>), Str(<<"U", "D", "P">>),
             Str(<<"S", "C", "T", "P">>), Str(<<>>)}
      [] f = "timeoutMs" ->
            {Whole(10), Whole(999), Whole(1000), Whole(300000), Whole(300001),
             Num(15005), Whole(0)}

\* the calls that differ from ValidParams(o) in at most n fields
RECURSIVE Deviations(_, _)
Deviations(o, n) ==
    IF n = 0 THEN {ValidParams(o)}
    ELSE LET fs == IF o = "auth" THEN AuthFields ELSE Fields
         IN  Deviations(o, n - 1) \cup
             UNION {{[q EXCEPT ![f] = x] : x \in FieldValues(f), q \in Deviations(o, n - 1)}
                    : f \in fs}
ParamSets(o) == Deviations(o, MaxDeviations)

TokenA == <<"t", "o", "k">>
Timestamp == <<"2", "0", "2", "6", "-", "0", "3", "-", "0", "1", "T",
               "1", "2", ":", "0", "0", ":", "0", "0", "Z">>
BadMonth == [Timestamp EXCEPT ![6] = "1", ![7] = "3"]
NoTime == SubSeq(Timestamp, 1, 10)

TokenBody(accessToken, tokenType, expiresIn) ==
    [EmptyObject EXCEPT !.accessToken = accessToken, !.tokenType = tokenType,
                        !.expiresIn = expiresIn]
CredsBody(credentialType, data, expiresAt) ==
    [EmptyObject EXCEPT !.credentialType = credentialType, !.data = data,
                        !.expiresAt = expiresAt]
GoodToken == TokenBody(Str(TokenA), Str(<<"Bearer">>), Whole(3600))
OAuthData(token) == Data(Undefined, Undefined, Undefined, token)
GoodOAuth == CredsBody(Str(OAUTH_TOKEN), OAuthData(Str(<<"o">>)), Null)

StatusLines == {[status |-> 200, statusText |-> <<"OK">>],
                [status |-> 299, statusText |-> <<>>],
                [status |-> 300, statusText |-> <<"Multiple Choices">>],
                [status |-> 401, statusText |-> <<"Unauthorized">>],
                [status |-> 500, statusText |-> <<"Internal Server Error">>]}

\* the JSON bodies of the main specification
Bodies ==
    {GoodToken, TokenBody(Str(<<>>), Str(<<"Bearer">>), Whole(3600)),
     TokenBody(Str(JwtB), Str(<<"Bearer">>), Whole(0)),
     GoodOAuth, CredsBody(Str(OAUTH_TOKEN), OAuthData(Str(<<>>)), Str(Timestamp)),
     CredsBody(Str(API_KEY), Data(Str(<<"k">>), Undefined, Undefined, Undefined), Undefined),
     CredsBody(Str(USERNAME_PASSWORD),
               Data(Undefined, Str(<<"u">>), Str(<<"p">>), Undefined), Str(Timestamp)),
     JsonNull}

ErrorTexts == {Text("Invalid token", 13), NoText, Text("page", MAX_ERROR_BODY_BYTES),
               Text("page", MAX_ERROR_BODY_BYTES + 1)}

\* what the server may answer in the main specification
Responses ==
    {Response(l.status, l.statusText, "json", b, Text("json", 40)) :
        l \in StatusLines, b \in Bodies}
    \cup {Response(l.status, l.statusText, "text", JsonNull, x) :
        l \in StatusLines, x \in ErrorTexts}
    \cup {Response(l.status, l.statusText, k, JsonNull, NoText) :
        l \in StatusLines, k \in {"error", "stall"}}

\* what fetch may reject with when the request is not aborted: by the Fetch
\* standard an AbortError comes from the signal alone
NetworkCauses == {Cause(TRUE, "TypeError", <<"fetch failed">>),
                  Cause(FALSE, "", <<"ECONNRESET">>)}

(***************************************************************************)
(* State                                                                   *)
(***************************************************************************)
VARIABLES
    variant,   \* the revision of the library that runs
    op,        \* op[c]: "auth", "creds", or "none" for a call that is not made
    params,    \* params[c]: the caller's arguments
    pc,        \* pc[c]: "called", "awaitFetch", "awaitText", "awaitJson", "done"
    timer,     \* timer[c]: [state, delay]; state is none, pending, cleared or fired
    aborted,   \* aborted[c]: controller.signal.aborted
    requests,  \* requests[c]: the requests handed to fetch, in order
    res,       \* res[c]: the response fetch resolved with
    outcome,   \* outcome[c]: what the call's promise settled with
    log        \* log[c]: the events of the call, in order

vars == <<variant, op, params, pc, timer, aborted, requests, res, outcome, log>>

NoTimer == [state |-> "none", delay |-> Undefined]
NoParams == [f \in Fields |-> Undefined]

\* a clearTimeout that leaves the timer armed (the properties of the timer are
\* checked against it)
ClearTimeout_noop(t) == t

\* clearTimeout(timeoutId)
ClearTimeout(t) == IF t.state = "pending" THEN [t EXCEPT !.state = "cleared"] ELSE t

\* the state in which call 1 has been made, with arguments drawn from the set
\* given for its operation, and the other calls are absent
InitOne(authParams, credsParams) ==
    /\ variant \in Variants
    /\ \E o \in {"auth", "creds"} :
         /\ op = [c \in Calls |-> IF c = 1 THEN o ELSE "none"]
         /\ \E p \in (IF o = "auth" THEN authParams ELSE credsParams) :
              params = [c \in Calls |-> IF c = 1 THEN p ELSE NoParams]
    /\ pc = [c \in Calls |-> IF c = 1 THEN "called" ELSE "absent"]
    /\ timer = [c \in Calls |-> NoTimer]
    /\ aborted = [c \in Calls |-> FALSE]
    /\ requests = [c \in Calls |-> <<>>]
    /\ res = [c \in Calls |-> NoResponse]
    /\ outcome = [c \in Calls |-> Pending]
    /\ log = [c \in Calls |-> <<>>]

Init == InitOne(ParamSets("auth"), ParamSets("creds"))

\* the call settles
Settle(c, o) ==
    /\ outcome' = [outcome EXCEPT ![c] = o]
    /\ pc' = [pc EXCEPT ![c] = "done"]

(***************************************************************************)
(* Actions                                                                 *)
(***************************************************************************)
\* The call runs to its first await: validation, URL, and fetchWithTimeout up
\* to `await fetch(...)` (new AbortController, setTimeout, fetch).
Invoke(c) ==
    /\ pc[c] = "called"
    /\ op[c] \in {"auth", "creds"}
    /\ LET pre == Preflight(variant, op[c], params[c])
       IN  IF pre.kind = "throw" THEN
               /\ Settle(c, pre)
               /\ log' = [log EXCEPT ![c] = @ \o <<"settled">>]
               /\ UNCHANGED <<timer, requests>>
           ELSE
               /\ timer' = [timer EXCEPT ![c] =
                               IF variant = "bare" THEN NoTimer
                               ELSE [state |-> "pending",
                                     delay |-> TimeoutOf(variant, params[c])]]
               /\ requests' = [requests EXCEPT ![c] =
                                  Append(@, BuildRequest(variant, op[c], params[c]))]
               /\ pc' = [pc EXCEPT ![c] = "awaitFetch"]
               /\ log' = [log EXCEPT ![c] =
                             @ \o (IF variant = "bare" THEN <<>> ELSE <<"setTimeout">>)
                               \o <<"fetch">>]
               /\ UNCHANGED outcome
    /\ UNCHANGED <<variant, op, params, aborted, res>>

\* fetch resolves with a response of R: the timer is cleared and the call goes
\* on to read the body, res.json() of a 2xx response, res.text() of another.
FetchResolve(c, R) ==
    /\ pc[c] = "awaitFetch"
    /\ ~aborted[c]
    /\ \E r \in R :
         /\ res' = [res EXCEPT ![c] = r]
         /\ pc' = [pc EXCEPT ![c] = IF Ok(r) THEN "awaitJson" ELSE "awaitText"]
    /\ timer' = [timer EXCEPT ![c] = ClearTimeout(@)]
    /\ log' = [log EXCEPT ![c] =
                  @ \o <<"response">> \o (IF variant = "bare" THEN <<>> ELSE <<"clearTimeout">>)]
    /\ UNCHANGED <<variant, op, params, aborted, requests, outcome>>

\* a rejection after which the request is issued once more (the properties of
\* the single attempt are checked against it)
FetchReject_retry(c) ==
    /\ pc[c] = "awaitFetch"
    /\ ~aborted[c]
    /\ Len(requests[c]) < 2
    /\ requests' = [requests EXCEPT ![c] = Append(@, @[Len(@)])]
    /\ log' = [log EXCEPT ![c] = @ \o <<"reject", "fetch">>]
    /\ UNCHANGED <<variant, op, params, pc, timer, aborted, res, outcome>>

\* fetch rejects with a network failure: the timer is cleared, the call throws
FetchReject(c) ==
    /\ pc[c] = "awaitFetch"
    /\ ~aborted[c]
    /\ \E err \in NetworkCauses :
         Settle(c, RejectOutcome(variant, err, requests[c][Len(requests[c])].url,
                                 timer[c].delay))
    /\ timer' = [timer EXCEPT ![c] = ClearTimeout(@)]
    /\ log' = [log EXCEPT ![c] =
                  @ \o <<"reject">> \o (IF variant = "bare" THEN <<>> ELSE <<"clearTimeout">>)
                    \o <<"settled">>]
    /\ UNCHANGED <<variant, op, params, aborted, requests, res>>

\* a timer whose callback aborts one controller that all calls share (the
\* properties of separate calls are checked against it)
TimerFire_shared(c) ==
    /\ timer[c].state = "pending"
    /\ aborted' = [d \in Calls |-> TRUE]
    /\ timer' = [timer EXCEPT ![c] = [@ EXCEPT !.state = "fired"]]
    /\ IF pc[c] = "awaitFetch" THEN
           /\ Settle(c, RejectOutcome(variant, AbortError,
                                      requests[c][Len(requests[c])].url, timer[c].delay))
           /\ log' = [log EXCEPT ![c] = @ \o <<"abort", "reject", "clearTimeout", "settled">>]
           /\ UNCHANGED res
       ELSE
           /\ res' = [res EXCEPT ![c] =
                         IF pc[c] \in {"awaitText", "awaitJson"}
                         THEN [@ EXCEPT !.bodyKind = "error"] ELSE @]
           /\ log' = [log EXCEPT ![c] = @ \o <<"abort">>]
           /\ UNCHANGED <<pc, outcome>>
    /\ UNCHANGED <<variant, op, params, requests>>

\* The timer expires: its callback calls controller.abort().  A fetch in
\* flight rejects with an AbortError, which the catch block turns into the
\* timeout error; a body being read fails; a settled call only sees the abort.
TimerFire(c) ==
    /\ timer[c].state = "pending"
    /\ aborted' = [aborted EXCEPT ![c] = TRUE]
    /\ timer' = [timer EXCEPT ![c] = [@ EXCEPT !.state = "fired"]]
    /\ IF pc[c] = "awaitFetch" THEN
           /\ Settle(c, RejectOutcome(variant, AbortError,
                                      requests[c][Len(requests[c])].url, timer[c].delay))
           /\ log' = [log EXCEPT ![c] = @ \o <<"abort", "reject", "clearTimeout", "settled">>]
           /\ UNCHANGED res
       ELSE
           /\ res' = [res EXCEPT ![c] =
                         IF pc[c] \in {"awaitText", "awaitJson"}
                         THEN [@ EXCEPT !.bodyKind = "error"] ELSE @]
           /\ log' = [log EXCEPT ![c] = @ \o <<"abort">>]
           /\ UNCHANGED <<pc, outcome>>
    /\ UNCHANGED <<variant, op, params, requests>>

\* the body read settles: the call returns the guarded value or throws
BodyRead(c) ==
    /\ pc[c] \in {"awaitText", "awaitJson"}
    /\ res[c].bodyKind # "stall"
    /\ Settle(c, IF pc[c] = "awaitJson" THEN SuccessOutcome(variant, op[c], res[c])
                 ELSE FailureOutcome(variant, op[c], res[c]))
    /\ log' = [log EXCEPT ![c] = @ \o <<"body", "settled">>]
    /\ UNCHANGED <<variant, op, params, timer, aborted, requests, res>>

Next ==
    \E c \in Calls :
        \/ Invoke(c)
        \/ FetchResolve(c, Responses)
        \/ FetchReject(c)
        \/ TimerFire(c)
        \/ BodyRead(c)

Spec == Init /\ [][Next]_vars

\* the timer callback is a task of the event loop: once due it runs
LiveSpec == Spec /\ \A c \in Calls : WF_vars(TimerFire(c))

\* The steps of a call that the event loop runs once they are due: the
\* synchronous part of the call, the timer callback, and the continuation of
\* a body read that settles.  At most one of them is due at a time.
CallRuns(c) == Invoke(c) \/ TimerFire(c) \/ BodyRead(c)

(***************************************************************************)
(* The shape of response bodies: one well-formed call, every body          *)
(***************************************************************************)
ShapeStrings == {Undefined, Str(<<>>), Str(<<"v">>)}
TokenShapeBodies ==
    {TokenBody(a, t, e) :
        a \in ShapeStrings \cup {Whole(5)},
        t \in ShapeStrings,
        e \in {Undefined, Null, Str(<<"3", "6", "0", "0">>), Whole(0), Whole(-1), Num(15),
               Whole(1), Whole(3600), Whole(MAX_EXPIRES_IN_SECONDS),
               Whole(MAX_EXPIRES_IN_SECONDS + 1)}}
ShapeData ==
    {NoData, [NoData EXCEPT !.t = "null"], [NoData EXCEPT !.t = "string"]}
    \cup {Data(a, u, p, t) : a \in ShapeStrings, u \in ShapeStrings,
                             p \in ShapeStrings, t \in ShapeStrings}
    \cup {Data(Whole(5), Undefined, Undefined, Whole(5))}
ShapeTypes == {Undefined, Str(API_KEY), Str(USERNAME_PASSWORD), Str(OAUTH_TOKEN),
               Str(<<"Other">>), Whole(1)}
ShapeDates == {Undefined, Null, Str(Timestamp), Str(BadMonth), Str(NoTime),
               Str(<<>>), Whole(5)}
CredsShapeBodies ==
    {CredsBody(k, d, x) : k \in ShapeTypes, d \in ShapeData, x \in ShapeDates}
ShapeResponses ==
    {Response(200, <<"OK">>, "json", b, Text("json", 40)) :
        b \in TokenShapeBodies \cup CredsShapeBodies \cup {JsonNull, JsonString}}
    \cup {Response(401, <<"Unauthorized">>, "json", GoodToken, Text("json", 40)),
          Response(200, <<"OK">>, "text", JsonNull, Text("Invalid token", 13))}

ValidOnly(o) == {ValidParams(o)}
InitShape == InitOne(ValidOnly("auth"), ValidOnly("creds"))
NextShape ==
    \E c \in Calls :
        \/ Invoke(c)
        \/ FetchResolve(c, ShapeResponses)
        \/ FetchReject(c)
        \/ TimerFire(c)
        \/ BodyRead(c)
SpecShape == InitShape /\ [][NextShape]_vars

\* one well-formed call, every answer of the main specification, and the
\* event loop running what is due; nothing is assumed of the server
LiveSpecStall == InitShape /\ [][Next]_vars /\ \A c \in Calls : WF_vars(CallRuns(c))

(***************************************************************************)
(* Hosts: getCredentials with every host string up to MaxHostLen           *)
(***************************************************************************)
MaxHostLen == 4
HostAlphabet == {"a", "1", ":", "[", "]"}
HostStrings == UNION {[1..n -> HostAlphabet] : n \in 0..MaxHostLen}
HostParams(o) == {[ValidParams("creds") EXCEPT !.host = Str(h)] : h \in HostStrings}
InitHost ==
    /\ InitOne(HostParams("auth"), HostParams("creds"))
    /\ op[1] = "creds"
HostResponses == {Response(200, <<"OK">>, "json", GoodOAuth, Text("json", 40)),
                  Response(401, <<"Unauthorized">>, "text", JsonNull, Text("Invalid token", 13))}
NextHost ==
    \E c \in Calls :
        \/ Invoke(c)
        \/ FetchResolve(c, HostResponses)
        \/ FetchReject(c)
        \/ TimerFire(c)
        \/ BodyRead(c)
SpecHost == InitHost /\ [][NextHost]_vars

(***************************************************************************)
(* Calls in flight together: every call is made, with valid arguments       *)
(***************************************************************************)
InitPair ==
    /\ variant \in Variants
    /\ op \in [Calls -> {"auth", "creds"}]
    /\ params = [c \in Calls |-> ValidParams(op[c])]
    /\ pc = [c \in Calls |-> "called"]
    /\ timer = [c \in Calls |-> NoTimer]
    /\ aborted = [c \in Calls |-> FALSE]
    /\ requests = [c \in Calls |-> <<>>]
    /\ res = [c \in Calls |-> NoResponse]
    /\ outcome = [c \in Calls |-> Pending]
    /\ log = [c \in Calls |-> <<>>]
PairResponses == {Response(200, <<"OK">>, "json", GoodToken, Text("json", 40)),
                  Response(401, <<"Unauthorized">>, "text", JsonNull, Text("Invalid token", 13))}
NextPair ==
    \E c \in Calls :
        \/ Invoke(c)
        \/ FetchResolve(c, PairResponses)
        \/ FetchReject(c)
        \/ TimerFire(c)
        \/ BodyRead(c)
SpecPair == InitPair /\ [][NextPair]_vars

(***************************************************************************)
(* Calls in flight together that are refused with different bodies          *)
(***************************************************************************)
RefusalResponses ==
    {Response(401, <<"Unauthorized">>, "text", JsonNull, x) : x \in ErrorTexts}
    \cup {Response(401, <<"Unauthorized">>, "error", JsonNull, NoText),
          Response(500, <<"Internal Server Error">>, "text", JsonNull, Text("page", 40)),
          Response(200, <<"OK">>, "json", GoodToken, Text("json", 40))}
NextRefusals ==
    \E c \in Calls :
        \/ Invoke(c)
        \/ FetchResolve(c, RefusalResponses)
        \/ FetchReject(c)
        \/ TimerFire(c)
        \/ BodyRead(c)
SpecRefusals == InitPair /\ [][NextRefusals]_vars

(***************************************************************************)
(* extractCredentialValue                                                  *)
(***************************************************************************)
\* `${username}:${password}`
UserPass(username, password) ==
    Str(TemplateString(username) \o <<":">> \o TemplateString(password))

\* the strict revision: a colon in the username is refused
extractCredentialValue(creds) ==
    IF creds.t = "null" THEN Returned(Null)
    ELSE CASE creds.credentialType = Str(API_KEY) -> Returned(creds.data.apiKey)
           [] creds.credentialType = Str(OAUTH_TOKEN) -> Returned(creds.data.token)
           [] creds.credentialType = Str(USERNAME_PASSWORD) ->
                IF ~IsString(creds.data.username) THEN
                    Thrown("type", "TypeError", <<"username.includes is not a function">>)
                ELSE IF Includes(creds.data.username.s, ":") THEN
                    Thrown("format", "Error",
                           <<"Username contains a colon, which is not allowed per RFC 7617 Basic Auth format">>)
                ELSE Returned(UserPass(creds.data.username, creds.data.password))
           [] OTHER -> Returned(Null)

\* the revision that joins username and password without a test
extractCredentialValue_validated(creds) ==
    IF creds.t = "null" THEN Returned(Null)
    ELSE CASE creds.credentialType = Str(API_KEY) -> Returned(creds.data.apiKey)
           [] creds.credentialType = Str(OAUTH_TOKEN) -> Returned(creds.data.token)
           [] creds.credentialType = Str(USERNAME_PASSWORD) ->
                Returned(UserPass(creds.data.username, creds.data.password))
           [] OTHER -> Returned(Null)

\* the revision that has no value for UsernamePassword
extractCredentialValue_bare(creds) ==
    IF creds.t = "null" THEN Returned(Null)
    ELSE CASE creds.credentialType = Str(API_KEY) -> Returned(creds.data.apiKey)
           [] creds.credentialType = Str(OAUTH_TOKEN) -> Returned(creds.data.token)
           [] creds.credentialType = Str(USERNAME_PASSWORD) -> Returned(Null)
           [] OTHER -> Returned(Null)

\* the revision that knows OAuthToken alone: creds.data.token
extractCredentialValue_current(creds) ==
    IF creds.t = "null" THEN Returned(Null) ELSE Returned(creds.data.token)

ExtractOutcome(v, creds) ==
    CASE v = "strict" -> extractCredentialValue(creds)
      [] v = "validated" -> extractCredentialValue_validated(creds)
      [] v = "bare" -> extractCredentialValue_bare(creds)
      [] OTHER -> extractCredentialValue_current(creds)

\* the credentials extractCredentialValue is given: null, and responses of
\* the three kinds, with and without a colon in username and password
UserNames == {Str(<<"u">>), Str(<<>>), Str(<<"u", ":", "v">>), Str(<<":">>)}
Passwords == {Str(<<"p">>), Str(<<>>), Str(<<"p", ":", "q">>)}
ExtractInputs ==
    {JsonNull}
    \cup {CredsBody(Str(API_KEY), Data(k, Undefined, Undefined, Undefined), x) :
            k \in {Str(<<"k">>), Str(<<>>)}, x \in {Undefined, Null, Str(Timestamp)}}
    \cup {CredsBody(Str(OAUTH_TOKEN), OAuthData(t), x) :
            t \in {Str(TokenA), Str(<<>>)}, x \in {Undefined, Null, Str(Timestamp)}}
    \cup {CredsBody(Str(USERNAME_PASSWORD), Data(Undefined, u, w, Undefined), x) :
            u \in UserNames, w \in Passwords, x \in {Undefined, Null, Str(Timestamp)}}

\* the state in which call 1 is a call of the helper o with an argument of args
InitHelper(o, revisions, args) ==
    /\ variant \in revisions
    /\ op = [c \in Calls |-> IF c = 1 THEN o ELSE "none"]
    /\ \E a \in args : params = [c \in Calls |-> IF c = 1 THEN a ELSE NoParams]
    /\ pc = [c \in Calls |-> IF c = 1 THEN "called" ELSE "absent"]
    /\ timer = [c \in Calls |-> NoTimer]
    /\ aborted = [c \in Calls |-> FALSE]
    /\ requests = [c \in Calls |-> <<>>]
    /\ res = [c \in Calls |-> NoResponse]
    /\ outcome = [c \in Calls |-> Pending]
    /\ log = [c \in Calls |-> <<>>]

\* extractCredentialValue(creds) runs: it returns or throws at once
Extract(c) ==
    /\ pc[c] = "called"
    /\ op[c] = "extract"
    /\ Settle(c, ExtractOutcome(variant, params[c].creds))
    /\ log' = [log EXCEPT ![c] = @ \o <<"settled">>]
    /\ UNCHANGED <<variant, op, params, timer, aborted, requests, res>>

InitExtract == InitHelper("extract", Variants, {[creds |-> x] : x \in ExtractInputs})
NextExtract == \E c \in Calls : Extract(c)
SpecExtract == InitExtract /\ [][NextExtract]_vars

(***************************************************************************)
(* maskSecret                                                              *)
(***************************************************************************)
\* String.prototype.slice(start, end) for integers: a negative index counts
\* from the end, and both are clamped to the string
RelativeIndex(k, len) ==
    IF k < 0 THEN (IF len + k < 0 THEN 0 ELSE len + k)
    ELSE (IF k > len THEN len ELSE k)
StrSlice(s, start, end) ==
    LET from == RelativeIndex(start, Len(s))
        to == RelativeIndex(end, Len(s))
    IN  IF from < to THEN SubSeq(s, from + 1, to) ELSE <<>>

\* const { visibleStart = 4, visibleEnd = 4, mask = "****" } = options ?? {}
DefaultMask == <<"*", "*", "*", "*">>
VisibleStartOf(options) == DefaultTo(options.visibleStart, Whole(4)).n \div 10
VisibleEndOf(options) == DefaultTo(options.visibleEnd, Whole(4)).n \div 10
MaskOf(options) == DefaultTo(options.mask, Str(DefaultMask)).s

\* maskSecret of the library: a short value gives the mask
maskSecret(value, options) ==
    IF ~IsString(value) THEN Returned(Null)
    ELSE IF Len(value.s) <= VisibleStartOf(options) + VisibleEndOf(options) THEN
        Returned(Str(MaskOf(options)))
    ELSE Returned(Str(StrSlice(value.s, 0, VisibleStartOf(options))
                      \o MaskOf(options)
                      \o StrSlice(value.s, 0 - VisibleEndOf(options), Len(value.s))))

\* maskSecret of the page: a short value is returned as it is
maskSecret_page(value, options) ==
    IF ~IsString(value) THEN Returned(Null)
    ELSE IF Len(value.s) <= VisibleStartOf(options) + VisibleEndOf(options) THEN
        Returned(value)
    ELSE Returned(Str(StrSlice(value.s, 0, VisibleStartOf(options))
                      \o MaskOf(options)
                      \o StrSlice(value.s, 0 - VisibleEndOf(options), Len(value.s))))

MaskVariants == {"bare", "page"}
MaskOutcome(v, value, options) ==
    IF v = "page" THEN maskSecret_page(value, options) ELSE maskSecret(value, options)

\* the values and options maskSecret is given
MaxSecretLen == 10
MaxVisible == 2
SecretChars == <<"1", "2", "3", "4", "5", "6", "7", "8", "9", "0", "a", "b", "c">>
Secrets == {Str(SubSeq(SecretChars, 1, n)) : n \in 0..MaxSecretLen}
VisibleValues == {Undefined} \cup {Whole(n) : n \in 0..MaxVisible}
MaskOptions ==
    [visibleStart : VisibleValues, visibleEnd : VisibleValues,
     mask : {Undefined, Str(<<"#">>)}]
MaskInputs ==
    {[value |-> v, options |-> o] : v \in Secrets \cup {Undefined, Null, Whole(5)},
                                    o \in MaskOptions}

\* maskSecret(value, options) runs: it returns at once
Mask(c) ==
    /\ pc[c] = "called"
    /\ op[c] = "mask"
    /\ Settle(c, MaskOutcome(variant, params[c].value, params[c].options))
    /\ log' = [log EXCEPT ![c] = @ \o <<"settled">>]
    /\ UNCHANGED <<variant, op, params, timer, aborted, requests, res>>

InitMask == InitHelper("mask", MaskVariants, MaskInputs)
NextMask == \E c \in Calls : Mask(c)
SpecMask == InitMask /\ [][NextMask]_vars

(***************************************************************************)
(* The caller's flow: authenticate, then getCredentials with the token's   *)
(* accessToken, then extractCredentialValue of the credentials             *)
(***************************************************************************)
FlowTokens == {Str(TokenA), Str(JwtB)}
FlowSecrets == {Str(<<"o">>), Str(<<"o", "a", "u", "t", "h", "-", "a", "b", "c">>)}
FlowResponses ==
    {Response(200, <<"OK">>, "json", TokenBody(a, Str(<<"Bearer">>), Whole(3600)),
              Text("json", 40)) : a \in FlowTokens}
    \cup {Response(200, <<"OK">>, "json", CredsBody(Str(OAUTH_TOKEN), OAuthData(v), Null),
                   Text("json", 40)) : v \in FlowSecrets}
    \cup {Response(401, <<"Unauthorized">>, "text", JsonNull, Text("Invalid token", 13))}

InitFlow ==
    /\ InitOne(ValidOnly("auth"), ValidOnly("creds"))
    /\ op[1] = "auth"

\* the caller passes auth.accessToken of the token call c returned to
\* aembitGetCredentials, with the baseUrl and identity token of call c
ChainCredentials(c, d) ==
    /\ op[c] = "auth"
    /\ pc[c] = "done"
    /\ outcome[c].kind = "return"
    /\ op[d] = "none"
    /\ op' = [op EXCEPT ![d] = "creds"]
    /\ params' = [params EXCEPT ![d] =
                     [ValidParams("creds") EXCEPT
                         !.baseUrl = params[c].baseUrl,
                         !.bearerToken = outcome[c].value.accessToken,
                         !.oidcIdentityToken = params[c].oidcIdentityToken]]
    /\ pc' = [pc EXCEPT ![d] = "called"]
    /\ UNCHANGED <<variant, timer, aborted, requests, res, outcome, log>>

\* the caller passes the credentials call d returned to extractCredentialValue;
\* the helper's call takes the place of call d, whose request and response stay
ChainExtract(d) ==
    /\ op[d] = "creds"
    /\ pc[d] = "done"
    /\ outcome[d].kind = "return"
    /\ op' = [op EXCEPT ![d] = "extract"]
    /\ params' = [params EXCEPT ![d] = [creds |-> outcome[d].value]]
    /\ pc' = [pc EXCEPT ![d] = "called"]
    /\ outcome' = [outcome EXCEPT ![d] = Pending]
    /\ UNCHANGED <<variant, timer, aborted, requests, res, log>>

NextFlow ==
    \E c \in Calls :
        \/ Invoke(c)
        \/ FetchResolve(c, FlowResponses)
        \/ FetchReject(c)
        \/ TimerFire(c)
        \/ BodyRead(c)
        \/ \E d \in Calls : ChainCredentials(c, d)
        \/ ChainExtract(c)
        \/ Extract(c)
SpecFlow == InitFlow /\ [][NextFlow]_vars

(***************************************************************************)
(* Calls that differ in baseUrl and host alone                             *)
(***************************************************************************)
EchoBaseUrls ==
    {Str(<<"https:", "//", "h">>), Str(<<"https:", "//", "g">>),
     Str(<<"http:", "//", "h">>), Str(<<"ws:", "//", "h">>),
     Str(<<"h">>), Str(<<"g">>), Str(<<>>), Str(<<" ">>)}
EchoHosts == {Str(HostA), Str(<<"a", ":", "b">>), Str(<<"-", "a">>), Str(<<>>)}
EchoParams(o) ==
    IF o = "auth" THEN {[ValidParams(o) EXCEPT !.baseUrl = b] : b \in EchoBaseUrls}
    ELSE {[ValidParams(o) EXCEPT !.baseUrl = b, !.host = h] : b \in EchoBaseUrls, h \in EchoHosts}

\* every call is made, all of one operation
InitEcho ==
    /\ variant \in Variants
    /\ \E o \in {"auth", "creds"} :
         /\ op = [c \in Calls |-> o]
         /\ params \in [Calls -> EchoParams(o)]
    /\ pc = [c \in Calls |-> "called"]
    /\ timer = [c \in Calls |-> NoTimer]
    /\ aborted = [c \in Calls |-> FALSE]
    /\ requests = [c \in Calls |-> <<>>]
    /\ res = [c \in Calls |-> NoResponse]
    /\ outcome = [c \in Calls |-> Pending]
    /\ log = [c \in Calls |-> <<>>]
SpecEcho == InitEcho /\ [][NextPair]_vars

(***************************************************************************)
(* Vocabulary of the properties                                            *)
(***************************************************************************)
Made(c) == op[c] # "none"
Done(c) == pc[c] = "done"
Started(c) == pc[c] \notin {"absent", "called"}
\* the arguments an operation reads
FieldsOf(o) == IF o = "auth" THEN AuthFields ELSE Fields \ {"clientId"}
ContainsSeq(s, sub) ==
    \E i \in 0..(Len(s) - Len(sub)) : SubSeq(s, i + 1, i + Len(sub)) = sub
Occurrences(s, e) == Cardinality({i \in 1..Len(s) : s[i] = e})

\* The documented bounds of the inputs (section 4.1 of the specification),
\* stated on the values the model draws.  A whitespace-only clientId is
\* counted neither as well formed nor as malformed.
WellFormedValues(f) ==
    CASE f = "baseUrl" ->
            {Str(<<"https:", "//", "h">>), Str(<<"https:", "//", "h", "/">>),
             Str(<<"https:", "//", "h", "/", "api">>)}
      [] f = "clientId" -> {Str(<<"c">>)}
      [] f = "bearerToken" -> {Str(JwtB)}
      [] f = "oidcIdentityToken" -> {Str(JwtA)}
      [] f = "host" ->
            {Str(HostA), Str(<<"1", ".", "2", ".", "3", ".", "4">>),
             Str(<<":", ":", "1">>), Str(<<"[", ":", ":", "1", "]">>)}
      [] f = "port" -> {Whole(443), Whole(1), Whole(65535)}
      [] f = "credentialType" -> {Str(API_KEY), Str(USERNAME_PASSWORD), Str(OAUTH_TOKEN)}
      [] f = "transportProtocol" -> {Undefined, Str(<<"T", "C", "P">>), Str(<<"U", "D", "P">>)}
      [] f = "timeoutMs" -> {Undefined, Whole(1000), Whole(300000)}
MalformedValues(f) ==
    CASE f = "baseUrl" -> {Str(<<"http:", "//", "h">>), Str(<<"h">>), Str(<<>>),
                           Str(<<" ">>), Undefined}
      [] f = "clientId" -> {Str(<<>>), Undefined}
      [] f = "bearerToken" -> {}
      [] f = "oidcIdentityToken" -> {Str(<<"y">>), Str(<<"a", ".", "b">>), Str(<<>>), Undefined}
      [] f = "host" -> {Str(<<"[", ":", ":", "1">>), Str(<<":", ":", "1", "]">>),
                        Str(<<"a", ":", "b">>), Str(<<"-", "a">>), Str(<<>>), Undefined}
      [] f = "port" -> {Whole(0), Whole(65536), Num(15), Whole(-1),
                        Str(<<"4", "4", "3">>), Undefined}
      [] f = "credentialType" -> {Str(<<"Other">>), Undefined}
      [] f = "transportProtocol" -> {Str(<<"S", "C", "T", "P">>), Str(<<>>)}
      [] f = "timeoutMs" -> {Whole(10), Whole(999), Whole(300001), Num(15005), Whole(0)}
WellFormedCall(c) == \A f \in FieldsOf(op[c]) : params[c][f] \in WellFormedValues(f)
MalformedCall(c) == \E f \in FieldsOf(op[c]) : params[c][f] \in MalformedValues(f)

\* the timeout a caller configured: timeoutMs, or 30 000 ms when omitted
ConfiguredTimeout(c) == DefaultTo(params[c].timeoutMs, Whole(DEFAULT_TIMEOUT_MS))

(***************************************************************************)
(* C1  (current revision, LiveSpec)                                        *)
(***************************************************************************)
C1_Revisions == {"current"}
C1_TimedOut(c) ==
    /\ outcome[c].kind = "throw"
    /\ outcome[c].origin = "timeout"
    /\ outcome[c].message
         = <<"Request timed out after ">> \o TemplateString(ConfiguredTimeout(c)) \o <<"ms">>
    /\ aborted[c]
    /\ timer[c].state = "fired"
    /\ res[c] = NoResponse
    /\ log[c] = <<"setTimeout", "fetch", "abort", "reject", "clearTimeout", "settled">>
C1_Safe(c) ==
    /\ aborted[c] <=> timer[c].state = "fired"
    /\ (Done(c) /\ (aborted[c] \/ outcome[c].origin = "timeout")) => C1_TimedOut(c)
C1_Quiet(c) ==
    Done(c) => /\ log'[c] = log[c]
               /\ aborted'[c] = aborted[c]
               /\ outcome'[c] = outcome[c]
               /\ requests'[c] = requests[c]
C1_QuietStep == variant \in C1_Revisions => \A c \in Calls : C1_Quiet(c)
\* C1: a request the transport never answers ends in the timeout error whose
\* message is "Request timed out after <timeoutMs>ms" with the configured
\* timeoutMs; the signal is aborted exactly by the expiry of the timer, the
\* call settles at once, and no event of the call follows.
C1_TimeoutCancels ==
    /\ [](variant \in C1_Revisions => \A c \in Calls : C1_Safe(c))
    /\ [][C1_QuietStep]_vars
    /\ \A c \in Calls :
         (variant \in C1_Revisions /\ pc[c] = "awaitFetch") ~> (pc[c] # "awaitFetch")
C1_Witness ==
    /\ variant \in C1_Revisions
    /\ params[1].timeoutMs = Whole(10)
    /\ Done(1)
    /\ C1_TimedOut(1)

(***************************************************************************)
(* C2  (strict and current revisions, Spec)                                *)
(***************************************************************************)
C2_Revisions == {"strict", "current"}
\* C2: a call with a malformed baseUrl, clientId, identityToken, host, port,
\* credentialType, transportProtocol or timeoutMs fails before anything is
\* sent: it throws, fetch is never invoked and no timer is armed.
C2_MalformedNeverSent ==
    variant \in C2_Revisions =>
        \A c \in Calls :
            (Made(c) /\ MalformedCall(c) /\ pc[c] # "called") =>
                /\ Done(c)
                /\ outcome[c].kind = "throw"
                /\ outcome[c].origin \in {"validation", "url", "host"}
                /\ requests[c] = <<>>
                /\ timer[c].state = "none"

(***************************************************************************)
(* C3  (strict and current revisions, Spec)                                *)
(***************************************************************************)
C3_Revisions == {"strict", "current"}
\* C3: for well-formed inputs authenticate issues exactly one request: POST,
\* Content-Type application/json, body {clientId, client:{oidc:{identityToken}}}
\* with the caller's clientId and identityToken.
C3_OneAuthPost ==
    variant \in C3_Revisions =>
        \A c \in Calls :
            /\ Len(requests[c]) <= 1
            /\ (op[c] = "auth" /\ WellFormedCall(c) /\ Started(c)) =>
                 /\ Len(requests[c]) = 1
                 /\ requests[c][1].method = "POST"
                 /\ requests[c][1].contentType = <<"application/json">>
                 /\ requests[c][1].body
                      = [shape |-> "auth", clientId |-> params[c].clientId,
                         identityToken |-> params[c].oidcIdentityToken,
                         transportProtocol |-> Undefined, host |-> Undefined,
                         port |-> Undefined, credentialType |-> Undefined]
C3_Witness ==
    /\ variant = "strict"
    /\ op[1] = "auth"
    /\ WellFormedCall(1)
    /\ Done(1)
    /\ outcome[1].kind = "return"
    /\ Len(requests[1]) = 1

(***************************************************************************)
(* C4  (strict, current and validated revisions, Spec)                     *)
(***************************************************************************)
C4_Revisions == {"strict", "current", "validated"}
\* C4: when a call that armed a timer has settled, the timer is no longer
\* pending (cleared, or fired on the timeout path), nothing of the call
\* happened after it settled, abort was invoked only on the timeout path, and
\* there the request was aborted before the call settled.
C4_TimerReleased ==
    variant \in C4_Revisions =>
        \A c \in Calls :
            (Done(c) /\ timer[c].state # "none") =>
                /\ timer[c].state \in {"cleared", "fired"}
                /\ log[c][Len(log[c])] = "settled"
                /\ Occurrences(log[c], "clearTimeout") = 1
                /\ (outcome[c].origin = "timeout") <=> aborted[c]
                /\ aborted[c] <=> timer[c].state = "fired"
                /\ Occurrences(log[c], "abort") = (IF aborted[c] THEN 1 ELSE 0)
C4_Witness ==
    /\ variant = "validated"
    /\ Done(1)
    /\ timer[1].state = "cleared"
    /\ outcome[1].kind = "return"

(***************************************************************************)
(* C5  (strict and current revisions, SpecPair)                            *)
(***************************************************************************)
C5_Revisions == {"strict", "current"}
\* C5: the first of the two events decides.  Once fetch has resolved or
\* failed the call never times out and is never aborted; once the timer has
\* expired the call has timed out and no response is delivered; a call
\* settles once.
C5_FirstEventDecides ==
    variant \in C5_Revisions =>
        \A c \in Calls :
            /\ Occurrences(log[c], "settled") = (IF Done(c) THEN 1 ELSE 0)
            /\ (res[c] # NoResponse \/ outcome[c].origin = "network") =>
                 /\ ~aborted[c]
                 /\ timer[c].state = "cleared"
                 /\ outcome[c].origin # "timeout"
            /\ timer[c].state = "fired" =>
                 /\ Done(c)
                 /\ outcome[c].origin = "timeout"
                 /\ res[c] = NoResponse
C5_Witness ==
    /\ variant = "strict"
    /\ Done(1)
    /\ timer[1].state = "fired"
    /\ outcome[1].origin = "timeout"
    /\ Done(2)
    /\ timer[2].state = "cleared"
    /\ outcome[2].kind = "return"

(***************************************************************************)
(* C6  (current revision, Spec)                                            *)
(***************************************************************************)
C6_Revisions == {"current"}
\* C6: a response whose status is not 2xx makes the call fail with
\* AembitApiError; its status and statusText are those of the response and its
\* message holds the status code and the status text.
C6_ApiErrorCarriesStatus ==
    variant \in C6_Revisions =>
        \A c \in Calls :
            (Done(c) /\ res[c] # NoResponse /\ ~Ok(res[c])) =>
                /\ outcome[c].kind = "throw"
                /\ outcome[c].name = "AembitApiError"
                /\ outcome[c].status = res[c].status
                /\ outcome[c].statusText = res[c].statusText
                /\ ContainsSeq(outcome[c].message, <<ToString(res[c].status)>>)
                /\ ContainsSeq(outcome[c].message, res[c].statusText)
C6_Witness ==
    /\ variant \in C6_Revisions
    /\ Done(1)
    /\ res[1].status = 401
    /\ outcome[1].name = "AembitApiError"
    /\ ContainsSeq(outcome[1].message, <<"401", " ", "Unauthorized">>)

(***************************************************************************)
(* C7  (current and strict revisions, Spec)                                *)
(***************************************************************************)
C7_Revisions == {"current", "strict"}
\* C7: a 2xx response whose body is not JSON makes the call fail with the parse
\* error, whose message names the endpoint that was called; nothing is returned.
C7_ParseErrorNamesEndpoint ==
    variant \in C7_Revisions =>
        \A c \in Calls :
            (Done(c) /\ Ok(res[c]) /\ res[c].bodyKind = "text") =>
                /\ outcome[c].kind = "throw"
                /\ outcome[c].origin = "parse"
                /\ ContainsSeq(outcome[c].message,
                               <<"Failed to parse JSON from ">> \o Endpoint(op[c]))
                /\ ~ContainsSeq(outcome[c].message,
                                Endpoint(IF op[c] = "auth" THEN "creds" ELSE "auth"))
C7_Witness ==
    /\ variant \in C7_Revisions
    /\ op[1] = "creds"
    /\ Done(1)
    /\ Ok(res[1])
    /\ res[1].bodyKind = "text"
    /\ outcome[1].origin = "parse"

(***************************************************************************)
(* C8  (strict revision, SpecShape)                                        *)
(***************************************************************************)
C8_Revisions == {"strict"}
C8_Acceptable(b) ==
    /\ b.t = "object"
    /\ b.accessToken.t = "string" /\ Len(b.accessToken.s) >= 1
    /\ b.tokenType.t = "string" /\ Len(b.tokenType.s) >= 1
    /\ b.expiresIn.t = "number"
    /\ b.expiresIn.n % 10 = 0
    /\ b.expiresIn.n \div 10 >= 1
    /\ b.expiresIn.n \div 10 <= 31536000
C9_Revisions == {"strict", "current"}
\* expiresAt values that are valid ISO-8601 timestamps, and ones that are not;
\* a date without a time is counted as neither
C9_ValidDates == {Str(Timestamp)}
C9_InvalidDates == {Str(BadMonth), Str(<<>>), Whole(5)}
C9_NonEmpty(v) == v.t = "string" /\ Len(v.s) >= 1
C9_Acceptable(b) ==
    /\ b.t = "object"
    /\ b.credentialType \in {Str(API_KEY), Str(USERNAME_PASSWORD), Str(OAUTH_TOKEN)}
    /\ b.data.t = "object"
    /\ b.credentialType = Str(API_KEY) => C9_NonEmpty(b.data.apiKey)
    /\ b.credentialType = Str(USERNAME_PASSWORD) =>
         C9_NonEmpty(b.data.username) /\ C9_NonEmpty(b.data.password)
    /\ b.credentialType = Str(OAUTH_TOKEN) => C9_NonEmpty(b.data.token)
    /\ b.expiresAt \in {Undefined, Null} \cup C9_ValidDates
C9_Judged(b) == b.expiresAt \in {Undefined, Null} \cup C9_ValidDates \cup C9_InvalidDates
\* C9: getCredentials returns exactly when the response is 2xx and its JSON
\* body has a credentialType among ApiKey, UsernamePassword and OAuthToken, a
\* data object with that variant's fields as non-empty strings, and an
\* expiresAt that is absent, null or a valid ISO-8601 timestamp; what it returns
\* is the parsed body; every other 2xx JSON body ends in the shape error.
C9_CredentialsIffShape ==
    variant \in C9_Revisions =>
        \A c \in Calls :
            (op[c] = "creds" /\ Done(c) /\ C9_Judged(res[c].json)) =>
                LET good == Ok(res[c]) /\ res[c].bodyKind = "json" /\ C9_Acceptable(res[c].json)
                IN  /\ (outcome[c].kind = "return") <=> good
                    /\ good => outcome[c].value = res[c].json
                    /\ (Ok(res[c]) /\ res[c].bodyKind = "json" /\ ~good) =>
                         /\ outcome[c].kind = "throw"
                         /\ outcome[c].origin = "shape"

(***************************************************************************)
(* C10  (strict and current revisions, SpecHost)                           *)
(***************************************************************************)
C10_Revisions == {"strict", "current"}
C10_Bracketed(h) == StartsWith(h, "[") /\ EndsWith(h, "]")
C10_HostField(c, wrap(_)) ==
    (op[c] = "creds" /\ requests[c] # <<>>) =>
        LET h == params[c].host.s
        IN  requests[c][1].body.host
              = Str(IF wrap(h) THEN <<"[">> \o h \o <<"]">> ELSE h)
C10_WrapUnlessOpened(h) == Includes(h, ":") /\ ~StartsWith(h, "[")
C10_WrapUnlessBracketed(h) == Includes(h, ":") /\ ~C10_Bracketed(h)
C11_Revisions == {"strict", "current"}
\* the caller's baseUrl as written, without a trailing slash
C11_Base(c) ==
    LET b == params[c].baseUrl.s
    IN  IF EndsWith(b, "/") THEN SubSeq(b, 1, Len(b) - 1) ELSE b
\* C11: the URL a call requests is the caller's baseUrl (path included, a
\* trailing slash aside) followed by the endpoint path of the operation.
C11_UrlKeepsBase ==
    variant \in C11_Revisions =>
        \A c \in Calls :
            requests[c] # <<>> =>
                requests[c][1].url = C11_Base(c) \o Endpoint(op[c])

(***************************************************************************)
(* C12  (strict and current revisions, Spec)                               *)
(***************************************************************************)
C12_Revisions == {"strict", "current"}
\* C12: for well-formed inputs getCredentials issues a POST whose
\* Authorization header is "Bearer " followed by the caller's bearerToken and
\* whose body is {client:{oidc:{identityToken}}, server:{transportProtocol,
\* host, port}, credentialType} with the caller's identityToken, port and
\* credentialType, and the caller's transportProtocol or "TCP" when omitted.
C12_CredentialsPost ==
    variant \in C12_Revisions =>
        \A c \in Calls :
            (op[c] = "creds" /\ WellFormedCall(c) /\ Started(c)) =>
                /\ Len(requests[c]) = 1
                /\ requests[c][1].method = "POST"
                /\ requests[c][1].authorization = <<"Bearer", " ">> \o params[c].bearerToken.s
                /\ requests[c][1].body.shape = "creds"
                /\ requests[c][1].body.clientId = Undefined
                /\ requests[c][1].body.identityToken = params[c].oidcIdentityToken
                /\ requests[c][1].body.port = params[c].port
                /\ requests[c][1].body.credentialType = params[c].credentialType
                /\ requests[c][1].body.host.t = "string"
                /\ requests[c][1].body.transportProtocol
                     = (IF params[c].transportProtocol = Undefined
                        THEN Str(<<"T", "C", "P">>)
                        ELSE params[c].transportProtocol)
C12_Witness ==
    /\ variant = "current"
    /\ op[1] = "creds"
    /\ WellFormedCall(1)
    /\ params[1].transportProtocol = Undefined
    /\ Len(requests[1]) = 1
    /\ requests[1][1].body.transportProtocol = Str(<<"T", "C", "P">>)

(***************************************************************************)
(* C13  (strict and current revisions, Spec)                               *)
(***************************************************************************)
C13_Revisions == {"strict", "current"}
\* C13: a call hands fetch at most one request, whatever its outcome, and
\* exactly one when its inputs are well formed; fetch is invoked as often as
\* there are requests.
C13_SingleAttempt ==
    variant \in C13_Revisions =>
        \A c \in Calls :
            /\ Len(requests[c]) <= 1
            /\ Occurrences(log[c], "fetch") = Len(requests[c])
            /\ (Made(c) /\ WellFormedCall(c) /\ Done(c)) => Len(requests[c]) = 1
C13_Witness ==
    /\ variant \in C13_Revisions
    /\ WellFormedCall(1)
    /\ Done(1)
    /\ outcome[1].origin = "network"
    /\ Len(requests[1]) = 1
    /\ Occurrences(log[1], "fetch") = 1

(***************************************************************************)
(* C14  (strict and validated revisions, Spec)                             *)
(***************************************************************************)
C14_Revisions == {"strict", "validated"}
C14_Names(c, what) == ContainsSeq(outcome[c].message, what)
\* C14: a call returns only the parsed body of a 2xx response; a call that
\* failed validation, got no response, got a non-2xx response, could not
\* read or parse the body, or failed the shape check throws: the error of a
\* response names the endpoint (and carries the status when the response is
\* not 2xx), and a failure to read the error body is still told by the error.
C14_NothingSwallowed ==
    variant \in C14_Revisions =>
        \A c \in Calls :
            Done(c) =>
                /\ outcome[c].kind \in {"return", "throw"}
                /\ outcome[c].kind = "return" =>
                     /\ Ok(res[c])
                     /\ res[c].bodyKind = "json"
                     /\ outcome[c].value = res[c].json
                /\ res[c] = NoResponse =>
                     /\ outcome[c].kind = "throw"
                     /\ requests[c] # <<>> => outcome[c].origin \in {"timeout", "network"}
                /\ (res[c] # NoResponse /\ ~Ok(res[c])) =>
                     /\ outcome[c].kind = "throw"
                     /\ outcome[c].name = "AembitApiError"
                     /\ outcome[c].status = res[c].status
                     /\ C14_Names(c, Endpoint(op[c]))
                     /\ res[c].bodyKind = "error" =>
                          \/ C14_Names(c, ErrMessage(BodyReadError))
                          \/ ContainsSeq(TextTokens(outcome[c].responseBody),
                                         ErrMessage(BodyReadError))
                /\ (Ok(res[c]) /\ res[c].bodyKind # "json") =>
                     /\ outcome[c].kind = "throw"
                     /\ outcome[c].origin = "parse"
                     /\ C14_Names(c, Endpoint(op[c]))
                /\ (Ok(res[c]) /\ res[c].bodyKind = "json" /\ outcome[c].kind = "throw") =>
                     /\ outcome[c].origin = "shape"
                     /\ C14_Names(c, Endpoint(op[c]))

(***************************************************************************)
(* C15  (strict and current revisions, Spec)                               *)
(***************************************************************************)
C15_Revisions == {"strict", "current"}
C15_SaysTimeout(m) == \E i \in 1..Len(m) : m[i] = "Request timed out after "
C15_SaysNetwork(m) == \E i \in 1..Len(m) : m[i] = "Network error: "
\* C15: when fetch rejects without the call's timer having aborted it, the
\* call throws the network error, whose message holds the message of the
\* cause and does not speak of a timeout; when fetch rejects because the
\* timer aborted it, the call throws the timeout error and not a network error.
C15_NetworkOrTimeout ==
    variant \in C15_Revisions =>
        \A c \in Calls :
            (Done(c) /\ requests[c] # <<>> /\ res[c] = NoResponse) =>
                /\ outcome[c].kind = "throw"
                /\ ~aborted[c] =>
                     /\ outcome[c].origin = "network"
                     /\ C15_SaysNetwork(outcome[c].message)
                     /\ ~C15_SaysTimeout(outcome[c].message)
                     /\ \E err \in NetworkCauses :
                          ContainsSeq(outcome[c].message, err.message)
                /\ aborted[c] =>
                     /\ outcome[c].origin = "timeout"
                     /\ C15_SaysTimeout(outcome[c].message)
                     /\ ~C15_SaysNetwork(outcome[c].message)
C15_Witness ==
    /\ variant \in C15_Revisions
    /\ Done(1)
    /\ ~aborted[1]
    /\ outcome[1].origin = "network"
    /\ outcome[1].message = <<"Network error: ", "ECONNRESET">>

(***************************************************************************)
(* C16  (strict, current and validated revisions, Spec)                    *)
(***************************************************************************)
C16_Revisions == {"strict", "current", "validated"}
\* C16: the responseBody of the AembitApiError thrown for a non-2xx response
\* whose body was read is the whole text when the text has at most 10 000
\* characters, and otherwise its first 10 000 characters followed by the
\* truncation marker.
C16_BodyTruncated ==
    variant \in C16_Revisions =>
        \A c \in Calls :
            (Done(c) /\ res[c] # NoResponse /\ ~Ok(res[c]) /\ res[c].bodyKind \in {"text", "json"}) =>
                /\ outcome[c].name = "AembitApiError"
                /\ outcome[c].responseBody.src = res[c].text.src
                /\ outcome[c].responseBody.len <= MAX_ERROR_BODY_BYTES
                /\ IF res[c].text.len <= MAX_ERROR_BODY_BYTES
                   THEN outcome[c].responseBody = res[c].text
                   ELSE /\ outcome[c].responseBody.len = MAX_ERROR_BODY_BYTES
                        /\ outcome[c].responseBody.suffix = <<"... (truncated)">>

(***************************************************************************)
(* C17  (strict, current and validated revisions, SpecRefusals)            *)
(***************************************************************************)
C17_Revisions == {"strict", "current", "validated"}
C17_Refused(c) == Done(c) /\ res[c] # NoResponse /\ ~Ok(res[c])
\* C17: two calls of the same operation that are refused with the same status
\* and status text throw errors with the same message, whatever the bodies of
\* the two responses.
C17_MessageOmitsBody ==
    variant \in C17_Revisions =>
        \A c, d \in Calls :
            (/\ C17_Refused(c) /\ C17_Refused(d)
             /\ op[c] = op[d]
             /\ res[c].status = res[d].status
             /\ res[c].statusText = res[d].statusText) =>
                outcome[c].message = outcome[d].message

(***************************************************************************)
(* C18  (strict and bare revisions, SpecExtract)                           *)
(***************************************************************************)
C18_Revisions == {"strict", "bare"}
C18_Expected(creds) ==
    CASE creds.t = "null" -> Null
      [] creds.credentialType = Str(OAUTH_TOKEN) -> creds.data.token
      [] creds.credentialType = Str(API_KEY) -> creds.data.apiKey
      [] OTHER -> Str(creds.data.username.s \o <<":">> \o creds.data.password.s)
C18_Covered(creds) ==
    \/ creds.t = "null"
    \/ creds.credentialType \in {Str(OAUTH_TOKEN), Str(API_KEY)}
    \/ /\ creds.credentialType = Str(USERNAME_PASSWORD)
       /\ \A i \in 1..Len(creds.data.username.s) : creds.data.username.s[i] # ":"
\* C18: extractCredentialValue returns null for null, data.token for an
\* OAuthToken response, data.apiKey for an ApiKey response, and username, a
\* colon and password for a UsernamePassword response whose username has no
\* colon.
C18_ExtractMapping ==
    variant \in C18_Revisions =>
        \A c \in Calls :
            (op[c] = "extract" /\ Done(c) /\ C18_Covered(params[c].creds)) =>
                /\ outcome[c].kind = "return"
                /\ outcome[c].value = C18_Expected(params[c].creds)

(***************************************************************************)
(* C19  (strict, validated and bare revisions, SpecExtract)                *)
(***************************************************************************)
C19_Revisions == {"strict", "validated", "bare"}
C19_ColonInUsername(creds) ==
    /\ creds.t = "object"
    /\ creds.credentialType = Str(USERNAME_PASSWORD)
    /\ \E i \in 1..Len(creds.data.username.s) : creds.data.username.s[i] = ":"
\* C19: for a UsernamePassword response whose username holds a colon
\* extractCredentialValue throws the format error: it returns neither a joined
\* string nor null.
C19_ColonRefused ==
    variant \in C19_Revisions =>
        \A c \in Calls :
            (op[c] = "extract" /\ Done(c) /\ C19_ColonInUsername(params[c].creds)) =>
                /\ outcome[c].kind = "throw"
                /\ outcome[c].origin = "format"

(***************************************************************************)
(* C20  (bare revision and page, SpecMask)                                 *)
(***************************************************************************)
C20_Revisions == {"bare", "page"}
C20_Start(c) ==
    IF params[c].options.visibleStart = Undefined THEN 4
    ELSE params[c].options.visibleStart.n \div 10
C20_End(c) ==
    IF params[c].options.visibleEnd = Undefined THEN 4
    ELSE params[c].options.visibleEnd.n \div 10
C20_Mask(c) ==
    IF params[c].options.mask = Undefined THEN <<"*", "*", "*", "*">>
    ELSE params[c].options.mask.s
C20_Expected(c) ==
    LET s == params[c].value.s
    IN  IF params[c].value.t # "string" THEN Null
        ELSE IF Len(s) <= C20_Start(c) + C20_End(c) THEN Str(C20_Mask(c))
        ELSE Str(SubSeq(s, 1, C20_Start(c)) \o C20_Mask(c)
                 \o SubSeq(s, Len(s) - C20_End(c) + 1, Len(s)))
\* C20: maskSecret returns null for a value that is not a string, the mask
\* alone for a string of at most visibleStart + visibleEnd characters, and
\* otherwise the first visibleStart characters, the mask and the last
\* visibleEnd characters; visibleStart and visibleEnd are 4 and the mask is
\* "****" when not given.
C20_MaskShape ==
    variant \in C20_Revisions =>
        \A c \in Calls :
            (op[c] = "mask" /\ Done(c)) =>
                /\ outcome[c].kind = "return"
                /\ outcome[c].value = C20_Expected(c)

(***************************************************************************)
(* C21  (strict and current revisions, SpecFlow)                           *)
(***************************************************************************)
C21_Revisions == {"strict", "current"}
\* the token calls that returned the accessToken call d was given
C21_TokenCalls(d) ==
    {c \in Calls : /\ op[c] = "auth"
                   /\ Done(c)
                   /\ outcome[c].kind = "return"
                   /\ requests[d] # <<>> =>
                        requests[d][1].authorization
                          = <<"Bearer", " ">> \o outcome[c].value.accessToken.s}
\* the server answered call d with 2xx and {credentialType: "OAuthToken",
\* data: {token: v}, expiresAt: null}
C21_Answered(d) ==
    /\ Ok(res[d])
    /\ res[d].bodyKind = "json"
    /\ res[d].json.credentialType = Str(<<"OAuthToken">>)
    /\ res[d].json.data.t = "object"
    /\ res[d].json.data.token.t = "string"
    /\ res[d].json.expiresAt = Null
\* C21: a getCredentials call made with the accessToken of a token that
\* authenticate returned is sent (its bearerToken is accepted); when the server
\* answers it 2xx with {credentialType: "OAuthToken", data: {token: v},
\* expiresAt: null} it returns, and extractCredentialValue of what it returned
\* is v.
C21_FlowYieldsSecret ==
    variant \in C21_Revisions =>
        \A d \in Calls :
            /\ (op[d] = "creds" /\ C21_TokenCalls(d) # {} /\ Done(d)) =>
                 /\ requests[d] # <<>>
                 /\ C21_Answered(d) => outcome[d].kind = "return"
            /\ (op[d] = "extract" /\ Done(d) /\ C21_Answered(d)) =>
                 outcome[d] = Returned(res[d].json.data.token)

(***************************************************************************)
(* C22  (strict and current revisions, Spec)                               *)
(***************************************************************************)
C22_Revisions == {"strict", "current"}
C22_InRange(t) ==
    /\ t.t = "number"
    /\ t.n % 10 = 0
    /\ t.n \div 10 >= 1000
    /\ t.n \div 10 <= 300000
C22_Armed(c) == timer[c].state # "none"
\* C22: a call that omits timeoutMs arms its timer with 30 000 ms; a call
\* that gives an integer timeoutMs from 1 000 to 300 000 is not refused for it
\* and arms its timer with exactly that value; a call that gives any other
\* timeoutMs throws a validation error, hands fetch nothing and arms no timer.
C22_TimeoutBounds ==
    variant \in C22_Revisions =>
        \A c \in Calls :
            (Made(c) /\ pc[c] # "called") =>
                LET t == params[c].timeoutMs
                IN  /\ (t = Undefined /\ C22_Armed(c)) => timer[c].delay = Whole(30000)
                    /\ (t # Undefined /\ C22_InRange(t)) =>
                         /\ C22_Armed(c) => timer[c].delay = t
                         /\ WellFormedCall(c) => C22_Armed(c)
                    /\ (t # Undefined /\ ~C22_InRange(t)) =>
                         /\ Done(c)
                         /\ outcome[c].kind = "throw"
                         /\ outcome[c].origin = "validation"
                         /\ requests[c] = <<>>
                         /\ ~C22_Armed(c)

(***************************************************************************)
(* C23  (strict and current revisions, SpecPair)                           *)
(***************************************************************************)
C23_Revisions == {"strict", "current"}
\* everything that belongs to call c
C23_Own(c) ==
    <<op[c], params[c], pc[c], timer[c], aborted[c], requests[c], res[c], outcome[c], log[c]>>
\* a step is the step of one call: it leaves what belongs to the others as it was
C23_StepOfOne ==
    variant \in C23_Revisions =>
        \E c \in Calls : \A d \in Calls \ {c} : C23_Own(d)' = C23_Own(d)
\* what call c holds comes from its own arguments and its own response
C23_FromOwn(c) ==
    /\ requests[c] # <<>> =>
         /\ requests[c] = <<BuildRequest(variant, op[c], params[c])>>
         /\ timer[c].delay = TimeoutOf(variant, params[c])
    /\ outcome[c].kind = "return" => outcome[c].value = res[c].json
    /\ (outcome[c].kind = "throw" /\ outcome[c].name = "AembitApiError") =>
         /\ outcome[c].status = res[c].status
         /\ outcome[c].responseBody = readErrorBody(res[c])
    /\ aborted[c] <=> timer[c].state = "fired"
    /\ outcome[c].origin = "timeout" <=> (Done(c) /\ aborted[c])
\* C23: calls in flight together share nothing.  Every step (a response, a
\* failure, the expiry of a timer, the reading of a body) changes the timer,
\* the abort signal, the request, the response and the outcome of one call
\* and leaves those of every other call as they were; the request, the timer
\* and the outcome of a call come from its own arguments and its own response.
C23_CallsShareNothing ==
    /\ [](variant \in C23_Revisions => \A c \in Calls : C23_FromOwn(c))
    /\ [][C23_StepOfOne]_vars
C23_Witness ==
    /\ variant = "current"
    /\ Done(1)
    /\ outcome[1].origin = "timeout"
    /\ aborted[1]
    /\ Done(2)
    /\ outcome[2].name = "AembitApiError"
    /\ ~aborted[2]
    /\ timer[2].state = "cleared"

(***************************************************************************)
(* C24  (strict, current and bare revisions, LiveSpecStall)                *)
(***************************************************************************)
C24_Revisions == {"strict", "current", "bare"}
\* C24: every call that is made completes, with a value or an error, whatever
\* the server does: when it never answers, and when it sends the status line
\* and headers and then never delivers the body.
C24_AlwaysCompletes ==
    \A c \in Calls : (variant \in C24_Revisions /\ Made(c)) ~> Done(c)

(***************************************************************************)
(* C25  (strict revision, SpecHost)                                        *)
(***************************************************************************)
C25_Revisions == {"strict"}
C25_Brackets(h) == Cardinality({i \in 1..Len(h) : h[i] \in {"[", "]"}})
\* a hostname or IPv4 literal as given, or an IPv6 literal between one "["
\* and one "]"
C25_WellFormed(sent, given) ==
    \/ /\ C25_Brackets(sent) = 0
       /\ sent = given
       /\ \A i \in 1..Len(sent) : sent[i] # ":"
    \/ /\ C25_Brackets(sent) = 2
       /\ Len(sent) >= 2
       /\ sent[1] = "["
       /\ sent[Len(sent)] = "]"
       /\ IPv6Parse(SubSeq(sent, 2, Len(sent) - 1))
\* C25: for every host that validateHost accepts, server.host of the request
\* body is the hostname or IPv4 literal as given, or an IPv6 literal enclosed
\* in exactly one opening and one closing bracket.
C25_SentHostWellFormed ==
    variant \in C25_Revisions =>
        \A c \in Calls :
            (op[c] = "creds" /\ requests[c] # <<>>) =>
                /\ requests[c][1].body.host.t = "string"
                /\ C25_WellFormed(requests[c][1].body.host.s, params[c].host.s)

(***************************************************************************)
(* C26  (bare revision and page, SpecMask)                                 *)
(***************************************************************************)
C26_Revisions == {"bare", "page"}
C26_Requested(v) == IF v = Undefined THEN 4 ELSE v.n \div 10
\* out shows at most s leading and e trailing characters of value around the
\* mask, and not all of a value that has characters
C26_ShowsAtMost(out, value, mask, s, e) ==
    /\ \E a \in 0..s, b \in 0..e :
         /\ a + b <= Len(value)
         /\ Len(value) > 0 => a + b < Len(value)
         /\ out = SubSeq(value, 1, a) \o mask \o SubSeq(value, Len(value) - b + 1, Len(value))
    /\ Len(value) > 0 => ~ContainsSeq(out, value)
\* C26: for a string value, what maskSecret returns shows at most visibleStart
\* leading and visibleEnd trailing characters of the value and never the
\* whole value, also when visibleEnd is 0 and when the value has no more than
\* visibleStart + visibleEnd characters.
C26_NeverRevealsMore ==
    variant \in C26_Revisions =>
        \A c \in Calls :
            (op[c] = "mask" /\ Done(c) /\ params[c].value.t = "string") =>
                /\ outcome[c].kind = "return"
                /\ outcome[c].value.t = "string"
                /\ C26_ShowsAtMost(outcome[c].value.s, params[c].value.s,
                                   IF params[c].options.mask = Undefined
                                   THEN <<"*", "*", "*", "*">> ELSE params[c].options.mask.s,
                                   C26_Requested(params[c].options.visibleStart),
                                   C26_Requested(params[c].options.visibleEnd))

(***************************************************************************)
(* C27  (strict and validated revisions, SpecShape)                        *)
(***************************************************************************)
C27_Revisions == {"strict", "validated"}
\* C27: the credentials getCredentials returns are of the credentialType the
\* caller asked for; a 2xx response that carries another variant is not
\* returned.
C27_ReturnsRequestedType ==
    variant \in C27_Revisions =>
        \A c \in Calls :
            (op[c] = "creds" /\ Done(c) /\ outcome[c].kind = "return") =>
                outcome[c].value.credentialType = params[c].credentialType

(***************************************************************************)
(* C28  (strict and current revisions, Spec)                               *)
(***************************************************************************)
C28_Revisions == {"strict", "current"}
\* C28: the status is checked before the body is parsed.  A call answered
\* with a status that is not 2xx throws AembitApiError with that status,
\* whether the body is JSON of the expected shape, other JSON, no JSON, or
\* cannot be read; a value, a parse error or a shape error comes from a 2xx
\* response only.
C28_StatusBeforeBody ==
    variant \in C28_Revisions =>
        \A c \in Calls :
            Done(c) =>
                /\ (res[c] # NoResponse /\ ~Ok(res[c])) =>
                     /\ outcome[c].kind = "throw"
                     /\ outcome[c].name = "AembitApiError"
                     /\ outcome[c].origin = "api"
                     /\ outcome[c].status = res[c].status
                /\ (outcome[c].kind = "return" \/ outcome[c].origin \in {"parse", "shape"}) =>
                     Ok(res[c])
C28_Witness ==
    /\ variant = "strict"
    /\ op[1] = "auth"
    /\ Done(1)
    /\ res[1].status = 500
    /\ res[1].bodyKind = "json"
    /\ isAembitTokenDTO(res[1].json)
    /\ outcome[1].name = "AembitApiError"
    /\ outcome[1].status = 500

(***************************************************************************)
(* C29  (strict, validated and bare revisions, SpecExtract)                *)
(***************************************************************************)
C29_Revisions == {"strict", "validated", "bare"}
\* the credentials getCredentials of the revision can return: the JSON
\* objects its guard accepts
C29_Returnable(creds) == creds.t = "object" /\ Guard(variant, "creds", creds)
\* C29: for credentials that getCredentials can return, extractCredentialValue
\* returns a non-empty string or throws the colon-in-username format error;
\* it returns neither null nor the empty string.
C29_ExtractsNonEmpty ==
    variant \in C29_Revisions =>
        \A c \in Calls :
            (op[c] = "extract" /\ Done(c) /\ C29_Returnable(params[c].creds)) =>
                \/ /\ outcome[c].kind = "return"
                   /\ outcome[c].value.t = "string"
                   /\ Len(outcome[c].value.s) >= 1
                \/ /\ outcome[c].kind = "throw"
                   /\ outcome[c].origin = "format"

(***************************************************************************)
(* C30  (strict and validated revisions, SpecEcho)                         *)
(***************************************************************************)
C30_Revisions == {"strict", "validated"}
\* what is wrong with a baseUrl, and with a host, judged on the value
C30_BaseUrlFault(b) ==
    CASE b.t # "string" -> "type"
      [] b.s = <<>> -> "empty"
      [] b.s = <<" ">> -> "blank"
      [] b.s \in {<<"h">>, <<"g">>} -> "format"
      [] b.s[1] # "https:" -> "protocol"
      [] OTHER -> "none"
C30_HostFault(h) ==
    CASE h.t # "string" -> "type"
      [] h.s = <<>> -> "empty"
      [] h.s \in {<<"a", ":", "b">>, <<"-", "a">>} -> "format"
      [] OTHER -> "none"
\* the check a failed call failed: the first fault of its arguments when
\* validation refused it, the way the request ended when the request failed
C30_FailedCheck(c) ==
    CASE outcome[c].origin = "validation" /\ C30_BaseUrlFault(params[c].baseUrl) # "none" ->
            <<"baseUrl", C30_BaseUrlFault(params[c].baseUrl)>>
      [] outcome[c].origin = "validation" /\ op[c] = "creds" ->
            <<"host", C30_HostFault(params[c].host)>>
      [] outcome[c].origin = "timeout" -> <<"fetch", "timeout">>
      [] outcome[c].origin = "network" -> <<"fetch", outcome[c].message[Len(outcome[c].message)]>>
      [] OTHER -> <<"none", "">>
C30_Holds(m, v) == v.t = "string" /\ v.s # <<>> /\ Trim(v.s) # <<>> /\ ContainsSeq(m, v.s)
\* C30: the errors of baseUrl validation, of host validation and of a failed
\* or timed-out request do not echo what the caller supplied: two calls that
\* differ in baseUrl and host alone and fail the same check throw the same
\* message, and the message of a refused baseUrl or host does not hold it.
C30_ErrorsEchoNothing ==
    variant \in C30_Revisions =>
        \A c, d \in Calls :
            (/\ Done(c) /\ Done(d)
             /\ C30_FailedCheck(c)[1] # "none"
             /\ C30_FailedCheck(c) = C30_FailedCheck(d)) =>
                /\ outcome[c].message = outcome[d].message
                /\ C30_FailedCheck(c)[1] = "baseUrl" =>
                     ~C30_Holds(outcome[c].message, params[c].baseUrl)
                /\ C30_FailedCheck(c)[1] = "host" =>
                     ~C30_Holds(outcome[c].message, params[c].host)

====
